---- MODULE Spec2Model ----
(***************************************************************************)
(* A model of SyncthingConnection (connector/syncthingconnection.cpp):     *)
(* the object's fields, the replies and single-shot timers in flight, the  *)
(* user commands and the read*() completion handlers.                      *)
(*                                                                         *)
(* Every handler is an operator from the object's state (a record with one *)
(* field per variable) to the state it leaves; an action applies one       *)
(* handler.  The field out collects, in order, what the handler emitted    *)
(* and which requests it issued.                                           *)
(***************************************************************************)
EXTENDS Integers, Sequences, FiniteSets, Bags, TLC

VARIABLES
    syncthingUrl,           \* m_syncthingUrl
    apiKey,                 \* m_apiKey
    user,                   \* m_user
    password,               \* m_password
    expectedSslErrors,      \* m_expectedSslErrors ("": none, else the certificate)
    autoReconnectInterval,  \* m_autoReconnectTimer.interval()
    timerActive,            \* m_autoReconnectTimer.isActive()
    autoReconnectTries,     \* m_autoReconnectTries
    status,                 \* m_status
    keepPolling,            \* m_keepPolling
    reconnecting,           \* m_reconnecting
    hasConfig,              \* m_hasConfig
    hasStatus,              \* m_hasStatus
    lastEventId,            \* m_lastEventId
    myId,                   \* m_myId
    configDir,              \* m_configDir
    dirs,                   \* m_dirs
    dirsCap,                \* m_dirs.capacity()
    devs,                   \* m_devs
    syncedDirs,             \* m_syncedDirs   (pointers into m_dirs)
    completedDirs,          \* m_completedDirs (pointers into m_dirs)
    unreadNotifications,    \* m_unreadNotifications
    totalIncomingTraffic,   \* m_totalIncomingTraffic
    totalOutgoingTraffic,   \* m_totalOutgoingTraffic
    totalIncomingRate,      \* m_totalIncomingRate, a fraction <<num, den>>
    totalOutgoingRate,      \* m_totalOutgoingRate, a fraction <<num, den>>
    lastConnectionsUpdate,  \* m_lastConnectionsUpdate (0: null)
    lastFileTime,           \* m_lastFileTime (0: null)
    lastFileName,           \* m_lastFileName
    lastFileDeleted,        \* m_lastFileDeleted
    lastErrorTime,          \* m_lastErrorTime (0: null)
    now,                    \* DateTime::gmtNow() and DateTime::now(), in seconds
    replies,                \* the QNetworkReply objects in flight (a bag)
    timers,                 \* the pending QTimer::singleShot calls, per endpoint
    commands,               \* number of user commands invoked so far
    failures,               \* number of failed responses so far
    out                     \* what the last handler emitted and requested

vars == <<syncthingUrl, apiKey, user, password, expectedSslErrors,
          autoReconnectInterval, timerActive,
          autoReconnectTries, status, keepPolling, reconnecting, hasConfig,
          hasStatus, lastEventId, myId, configDir, dirs, dirsCap, devs,
          syncedDirs, completedDirs, unreadNotifications,
          totalIncomingTraffic, totalOutgoingTraffic, totalIncomingRate,
          totalOutgoingRate, lastConnectionsUpdate, lastFileTime,
          lastFileName, lastFileDeleted, lastErrorTime, now, replies, timers,
          commands, failures, out>>

(***************************************************************************)
(* Bounds of the model.                                                    *)
(***************************************************************************)
MaxEventId == 2     \* highest event id the daemon hands out
MaxBatch == 1       \* events in one response to an events request
MaxCommands == 2    \* user commands per behaviour
MaxFailures == 1    \* failed (transport or parse) responses per behaviour
CounterBits == 12   \* width the unsigned counters are narrowed to
MaxClock == 3       \* latest second the clock shows

(***************************************************************************)
(* The object's state as one record, and its application to the variables. *)
(***************************************************************************)
St ==
    [syncthingUrl |-> syncthingUrl, apiKey |-> apiKey,
     user |-> user, password |-> password,
     expectedSslErrors |-> expectedSslErrors,
     autoReconnectInterval |-> autoReconnectInterval,
     timerActive |-> timerActive, autoReconnectTries |-> autoReconnectTries,
     status |-> status, keepPolling |-> keepPolling,
     reconnecting |-> reconnecting, hasConfig |-> hasConfig,
     hasStatus |-> hasStatus, lastEventId |-> lastEventId, myId |-> myId,
     configDir |-> configDir, dirs |-> dirs, dirsCap |-> dirsCap,
     devs |-> devs, syncedDirs |-> syncedDirs,
     completedDirs |-> completedDirs,
     unreadNotifications |-> unreadNotifications,
     totalIncomingTraffic |-> totalIncomingTraffic,
     totalOutgoingTraffic |-> totalOutgoingTraffic,
     totalIncomingRate |-> totalIncomingRate,
     totalOutgoingRate |-> totalOutgoingRate,
     lastConnectionsUpdate |-> lastConnectionsUpdate,
     lastFileTime |-> lastFileTime, lastFileName |-> lastFileName,
     lastFileDeleted |-> lastFileDeleted, lastErrorTime |-> lastErrorTime,
     now |-> now, replies |-> replies,
     timers |-> timers, commands |-> commands, failures |-> failures,
     out |-> <<>>]

Apply(s) ==
    /\ syncthingUrl' = s.syncthingUrl
    /\ apiKey' = s.apiKey
    /\ user' = s.user
    /\ password' = s.password
    /\ expectedSslErrors' = s.expectedSslErrors
    /\ autoReconnectInterval' = s.autoReconnectInterval
    /\ timerActive' = s.timerActive
    /\ autoReconnectTries' = s.autoReconnectTries
    /\ status' = s.status
    /\ keepPolling' = s.keepPolling
    /\ reconnecting' = s.reconnecting
    /\ hasConfig' = s.hasConfig
    /\ hasStatus' = s.hasStatus
    /\ lastEventId' = s.lastEventId
    /\ myId' = s.myId
    /\ configDir' = s.configDir
    /\ dirs' = s.dirs
    /\ dirsCap' = s.dirsCap
    /\ devs' = s.devs
    /\ syncedDirs' = s.syncedDirs
    /\ completedDirs' = s.completedDirs
    /\ unreadNotifications' = s.unreadNotifications
    /\ totalIncomingTraffic' = s.totalIncomingTraffic
    /\ totalOutgoingTraffic' = s.totalOutgoingTraffic
    /\ totalIncomingRate' = s.totalIncomingRate
    /\ totalOutgoingRate' = s.totalOutgoingRate
    /\ lastConnectionsUpdate' = s.lastConnectionsUpdate
    /\ lastFileTime' = s.lastFileTime
    /\ lastFileName' = s.lastFileName
    /\ lastFileDeleted' = s.lastFileDeleted
    /\ lastErrorTime' = s.lastErrorTime
    /\ now' = s.now
    /\ replies' = s.replies
    /\ timers' = s.timers
    /\ commands' = s.commands
    /\ failures' = s.failures
    /\ out' = s.out

(***************************************************************************)
(* Signals and requests.  A signal is a pair <<name, argument>>.           *)
(***************************************************************************)
Emit(s, name, arg) == [s EXCEPT !.out = Append(@, <<name, arg>>)]

\* The endpoints whose latest reply the object keeps a pointer to
\* (m_configReply, m_statusReply, m_connectionsReply, m_errorsReply,
\* m_eventsReply); the replies of the two statistics requests are not kept.
TrackedEndpoints == {"config", "status", "connections", "errors", "events"}
Endpoints == TrackedEndpoints \cup {"dirStats", "devStats"}
TimerEndpoints == {"connections", "devStats", "errors"}

\* A reply in flight: cur says that the object's m_<ep>Reply points to it,
\* aborted that abort() was called on it, since is the query of an events
\* request (0: omitted).
Reply(ep, since) ==
    [ep |-> ep, cur |-> ep \in TrackedEndpoints, aborted |-> FALSE,
     since |-> since]

CurReplies(s, ep) == {r \in BagToSet(s.replies) : r.ep = ep /\ r.cur}

BagReplace(bag, old, new) == (bag (-) SetToBag({old})) (+) SetToBag({new})

\* requestData() plus the assignment m_<ep>Reply = <new reply>: the reply
\* the object pointed to before stays in flight, but is no longer pointed to.
Forget(bag, ep) ==
    LET cur == {r \in BagToSet(bag) : r.ep = ep /\ r.cur}
    IN  IF cur = {} THEN bag
        ELSE LET r == CHOOSE x \in cur : TRUE
             IN  BagReplace(bag, r, [r EXCEPT !.cur = FALSE])
requestData(s, ep, since) ==
    [s EXCEPT !.replies = Forget(@, ep) (+) SetToBag({Reply(ep, since)}),
              !.out = Append(@, <<"request", ep>>)]

requestConfig(s) == requestData(s, "config", 0)
requestStatus(s) == requestData(s, "status", 0)
requestConnections(s) == requestData(s, "connections", 0)
requestErrors(s) == requestData(s, "errors", 0)
requestDirStatistics(s) == requestData(s, "dirStats", 0)
requestDeviceStatistics(s) == requestData(s, "devStats", 0)
\* The query item since is added only if m_lastEventId is not zero.
requestEvents(s) == requestData(s, "events", s.lastEventId)

\* QTimer::singleShot(interval, this, request<ep>)
singleShot(s, ep) == [s EXCEPT !.timers[ep] = @ + 1]

\* if(m_<ep>Reply) m_<ep>Reply->abort();
Abort(bag, ep) ==
    LET cur == {r \in BagToSet(bag) : r.ep = ep /\ r.cur /\ ~r.aborted}
    IN  IF cur = {} THEN bag
        ELSE LET r == CHOOSE x \in cur : TRUE
             IN  BagReplace(bag, r, [r EXCEPT !.aborted = TRUE])
abortAllRequests(s) ==
    [s EXCEPT !.replies =
        Abort(Abort(Abort(Abort(Abort(@, "config"), "status"),
                          "connections"), "errors"), "events")]

(***************************************************************************)
(* Entities.                                                               *)
(***************************************************************************)
NewDir(id) ==
    [id |-> id, label |-> "", status |-> "Unknown", errors |-> <<>>,
     previousErrors |-> <<>>, globalFiles |-> 0, lastScanTime |-> 0,
     lastFileTime |-> 0, lastFileName |-> "", lastFileDeleted |-> FALSE,
     downloadingItems |-> <<>>, blocksAlreadyDownloaded |-> 0,
     blocksToBeDownloaded |-> 0, downloadPercentage |-> 0]
NewDev(id) == [id |-> id, name |-> "", status |-> "Unknown", paused |-> FALSE]

\* The row (1-based) of the first entry with the id, 0 if there is none.
findInfo(list, id) ==
    IF \E i \in DOMAIN list : list[i].id = id
    THEN CHOOSE i \in DOMAIN list :
             /\ list[i].id = id
             /\ \A j \in DOMAIN list : list[j].id = id => i <= j
    ELSE 0
findDirInfo(s, dirId) == findInfo(s.dirs, dirId)
findDevInfo(s, devId) == findInfo(s.devs, devId)

isConnected(s) == s.status \in {"Idle", "Scanning", "Synchronizing", "Paused"}

\* A pointer into m_dirs is the index of the element it points to while the
\* vector keeps its buffer, and Dangling once the buffer is gone.
Dangling == 0
Invalidate(ptrs) == IF ptrs = {} THEN {} ELSE {Dangling}

(***************************************************************************)
(* setStatus() and emitNotification().                                     *)
(***************************************************************************)
setStatusWrongOrder(s, target) ==
    IF s.status = "BeingDestroyed" THEN s
    ELSE IF target \in {"Disconnected", "Reconnecting"}
    THEN LET s1 == [s EXCEPT !.syncedDirs = {}, !.status = target]
         IN  IF s.status # target THEN Emit(s1, "statusChanged", target) ELSE s1
    ELSE LET syncing == {i \in DOMAIN s.dirs : s.dirs[i].status = "Synchronizing"}
             scanning == \E i \in DOMAIN s.dirs : s.dirs[i].status = "Scanning"
             paused == \E i \in DOMAIN s.devs : s.devs[i].paused
             new == IF scanning THEN "Scanning"
                    ELSE IF syncing # {} THEN "Synchronizing"
                    ELSE IF paused THEN "Paused" ELSE "Idle"
             synced == IF new = "Paused" THEN {} ELSE s.syncedDirs \cup syncing
             s1 == [s EXCEPT !.autoReconnectTries = 0,
                             !.status = new,
                             !.syncedDirs = IF new # "Synchronizing" THEN {} ELSE synced,
                             !.completedDirs =
                                 IF new # "Synchronizing" THEN synced ELSE @]
         IN  IF s.status # new THEN Emit(s1, "statusChanged", new) ELSE s1

setStatusUnguarded(s, target) ==
    IF target \in {"Disconnected", "Reconnecting"}
    THEN LET s1 == [s EXCEPT !.syncedDirs = {}, !.status = target]
         IN  IF s.status # target THEN Emit(s1, "statusChanged", target) ELSE s1
    ELSE LET syncing == {i \in DOMAIN s.dirs : s.dirs[i].status = "Synchronizing"}
             scanning == \E i \in DOMAIN s.dirs : s.dirs[i].status = "Scanning"
             paused == \E i \in DOMAIN s.devs : s.devs[i].paused
             new == IF syncing # {} THEN "Synchronizing"
                    ELSE IF scanning THEN "Scanning"
                    ELSE IF paused THEN "Paused" ELSE "Idle"
             synced == IF new = "Paused" THEN {} ELSE s.syncedDirs \cup syncing
             s1 == [s EXCEPT !.autoReconnectTries = 0,
                             !.status = new,
                             !.syncedDirs = IF new # "Synchronizing" THEN {} ELSE synced,
                             !.completedDirs =
                                 IF new # "Synchronizing" THEN synced ELSE @]
         IN  IF s.status # new THEN Emit(s1, "statusChanged", new) ELSE s1

setStatus(s, target) ==
    IF s.status = "BeingDestroyed" THEN s
    ELSE IF target \in {"Disconnected", "Reconnecting"}
    THEN LET s1 == [s EXCEPT !.syncedDirs = {}, !.status = target]
         IN  IF s.status # target THEN Emit(s1, "statusChanged", target) ELSE s1
    ELSE LET syncing == {i \in DOMAIN s.dirs : s.dirs[i].status = "Synchronizing"}
             scanning == \E i \in DOMAIN s.dirs : s.dirs[i].status = "Scanning"
             paused == \E i \in DOMAIN s.devs : s.devs[i].paused
             new == IF syncing # {} THEN "Synchronizing"
                    ELSE IF scanning THEN "Scanning"
                    ELSE IF paused THEN "Paused" ELSE "Idle"
             synced == IF new = "Paused" THEN {} ELSE s.syncedDirs \cup syncing
             s1 == [s EXCEPT !.autoReconnectTries = 0,
                             !.status = new,
                             !.syncedDirs = IF new # "Synchronizing" THEN {} ELSE synced,
                             !.completedDirs =
                                 IF new # "Synchronizing" THEN synced ELSE @]
         IN  IF s.status # new THEN Emit(s1, "statusChanged", new) ELSE s1

emitNotification(s, message) ==
    Emit(setStatus([s EXCEPT !.unreadNotifications = TRUE], s.status),
         "newNotification", message)

(***************************************************************************)
(* connect(), disconnect(), reconnect(), applySettings(), autoReconnect(). *)
(***************************************************************************)
Insufficient(s) == s.apiKey = "" \/ s.syncthingUrl = ""

connectUnchecked(s) ==
    LET s1 == [s EXCEPT !.timerActive = FALSE, !.autoReconnectTries = 0]
        s2 == [s1 EXCEPT !.reconnecting = FALSE, !.hasConfig = FALSE,
                         !.hasStatus = FALSE]
    IN  IF isConnected(s1) THEN s1
        ELSE [requestStatus(requestConfig(s2)) EXCEPT !.keepPolling = TRUE]

connectAgain(s) ==
    LET s1 == [s EXCEPT !.timerActive = FALSE, !.autoReconnectTries = 0]
        s2 == [s1 EXCEPT !.reconnecting = FALSE, !.hasConfig = FALSE,
                         !.hasStatus = FALSE]
    IN  IF Insufficient(s2) THEN Emit(s2, "error", "OverallConnection")
        ELSE [requestStatus(requestConfig(s2)) EXCEPT !.keepPolling = TRUE]

connect(s) ==
    LET s1 == [s EXCEPT !.timerActive = FALSE, !.autoReconnectTries = 0]
        s2 == [s1 EXCEPT !.reconnecting = FALSE, !.hasConfig = FALSE,
                         !.hasStatus = FALSE]
    IN  IF isConnected(s1) THEN s1
        ELSE IF Insufficient(s2) THEN Emit(s2, "error", "OverallConnection")
        ELSE [requestStatus(requestConfig(s2)) EXCEPT !.keepPolling = TRUE]

disconnect(s) ==
    abortAllRequests([s EXCEPT !.reconnecting = FALSE, !.hasConfig = FALSE,
                               !.hasStatus = FALSE,
                               !.autoReconnectTries = 0])

continueReconnectingKeepsDevs(s) ==
    LET s1 == setStatus(Emit(s, "newConfig", "empty"), "Reconnecting")
        s2 == [s1 EXCEPT !.keepPolling = TRUE, !.reconnecting = FALSE,
                         !.lastEventId = 0, !.configDir = "", !.myId = "",
                         !.totalIncomingTraffic = 0,
                         !.totalOutgoingTraffic = 0,
                         !.totalIncomingRate = <<0, 1>>,
                         !.totalOutgoingRate = <<0, 1>>,
                         !.lastConnectionsUpdate = 0, !.lastFileTime = 0,
                         !.lastFileName = "", !.lastFileDeleted = FALSE,
                         !.lastErrorTime = 0,
                         !.unreadNotifications = FALSE,
                         !.hasConfig = FALSE, !.hasStatus = FALSE,
                         !.dirs = <<>>,
                         !.completedDirs = Invalidate(@)]
    IN  IF Insufficient(s2) THEN Emit(s2, "error", "OverallConnection")
        ELSE requestStatus(requestConfig(s2))

\* m_dirs.clear() destroys the elements the pointers of m_completedDirs
\* point to (setStatus has emptied m_syncedDirs).
continueReconnecting(s) ==
    LET s1 == setStatus(Emit(s, "newConfig", "empty"), "Reconnecting")
        s2 == [s1 EXCEPT !.keepPolling = TRUE, !.reconnecting = FALSE,
                         !.lastEventId = 0, !.configDir = "", !.myId = "",
                         !.totalIncomingTraffic = 0,
                         !.totalOutgoingTraffic = 0,
                         !.totalIncomingRate = <<0, 1>>,
                         !.totalOutgoingRate = <<0, 1>>,
                         !.lastConnectionsUpdate = 0, !.lastFileTime = 0,
                         !.lastFileName = "", !.lastFileDeleted = FALSE,
                         !.lastErrorTime = 0,
                         !.unreadNotifications = FALSE,
                         !.hasConfig = FALSE, !.hasStatus = FALSE,
                         !.dirs = <<>>, !.devs = <<>>,
                         !.completedDirs = Invalidate(@)]
    IN  IF Insufficient(s2) THEN Emit(s2, "error", "OverallConnection")
        ELSE requestStatus(requestConfig(s2))

reconnect(s) ==
    LET s1 == [s EXCEPT !.timerActive = FALSE, !.autoReconnectTries = 0]
    IN  IF isConnected(s1)
        THEN abortAllRequests([s1 EXCEPT !.reconnecting = TRUE,
                                         !.hasConfig = FALSE,
                                         !.hasStatus = FALSE])
        ELSE continueReconnecting(s1)

autoReconnectCountsOne(s) == [connect(s) EXCEPT !.autoReconnectTries = 1]

autoReconnect(s) ==
    LET tmp == s.autoReconnectTries
    IN  [connect(s) EXCEPT !.autoReconnectTries = tmp + 1]

setAutoReconnectInterval(s, interval) ==
    [s EXCEPT !.autoReconnectInterval = interval,
              !.timerActive = IF interval = 0 THEN FALSE ELSE @]

\* The URLs with a scheme that ends with s and a local host.
SecureLocal(url) == url = "https-local"

\* loadSelfSignedCertificate(): cert is the certificate found at the
\* certificate path ("": none).  The result is TRUE iff the state it leaves
\* has expected SSL errors.
loadSelfSignedCertificate(s, cert) ==
    LET s1 == [s EXCEPT !.expectedSslErrors = ""]
    IN  IF ~SecureLocal(s.syncthingUrl) THEN s1
        ELSE IF cert = "" THEN Emit(s1, "error", "OverallConnection")
        ELSE [s1 EXCEPT !.expectedSslErrors = cert]

\* A connection setting cs is the caller's SyncthingConnectionSettings; the
\* credentials it asks for are those it names if authEnabled, and none
\* otherwise.
credentialsDiffer(s, cs) ==
    \/ cs.authEnabled /\ (s.user # cs.userName \/ s.password # cs.password)
    \/ ~cs.authEnabled /\ (s.user # "" \/ s.password # "")

reconnectRequiredIgnoresCredentials(s, cs, cert) ==
    \/ s.syncthingUrl # cs.syncthingUrl
    \/ s.apiKey # cs.apiKey
    \/ IF cs.expectedSslErrors = ""
       THEN LET previouslyHadExpectedSslErrors == s.expectedSslErrors # ""
                ok == loadSelfSignedCertificate(
                          [s EXCEPT !.syncthingUrl = cs.syncthingUrl],
                          cert).expectedSslErrors # ""
            IN  ok \/ (previouslyHadExpectedSslErrors /\ ~ok)
       ELSE s.expectedSslErrors # cs.expectedSslErrors

\* The value applySettings() returns.
reconnectRequired(s, cs, cert) ==
    \/ s.syncthingUrl # cs.syncthingUrl
    \/ s.apiKey # cs.apiKey
    \/ credentialsDiffer(s, cs)
    \/ IF cs.expectedSslErrors = ""
       THEN LET previouslyHadExpectedSslErrors == s.expectedSslErrors # ""
                ok == loadSelfSignedCertificate(
                          [s EXCEPT !.syncthingUrl = cs.syncthingUrl],
                          cert).expectedSslErrors # ""
            IN  ok \/ (previouslyHadExpectedSslErrors /\ ~ok)
       ELSE s.expectedSslErrors # cs.expectedSslErrors

\* The state applySettings() leaves.
applySettings(s, cs, cert) ==
    LET s1 == [s EXCEPT !.syncthingUrl = cs.syncthingUrl, !.apiKey = cs.apiKey]
        s2 == IF credentialsDiffer(s1, cs)
              THEN [s1 EXCEPT !.user = IF cs.authEnabled THEN cs.userName ELSE "",
                              !.password = IF cs.authEnabled THEN cs.password ELSE ""]
              ELSE s1
        s3 == IF cs.expectedSslErrors = "" THEN loadSelfSignedCertificate(s2, cert)
              ELSE [s2 EXCEPT !.expectedSslErrors = cs.expectedSslErrors]
    IN  setAutoReconnectInterval(s3, cs.reconnectInterval)

\* The caller's settings after applySettings(): the expected SSL errors of
\* the connection are written back if the settings had none.
settingsApplied(s, cs, cert) ==
    IF cs.expectedSslErrors = ""
    THEN [cs EXCEPT !.expectedSslErrors = applySettings(s, cs, cert).expectedSslErrors]
    ELSE cs

connectSettings(s, cs, cert) ==
    IF reconnectRequired(s, cs, cert) THEN reconnect(applySettings(s, cs, cert))
    ELSE applySettings(s, cs, cert)

reconnectSettings(s, cs, cert) == reconnect(applySettings(s, cs, cert))

\* ~SyncthingConnection()
destroy(s) == disconnect([s EXCEPT !.status = "BeingDestroyed"])

(***************************************************************************)
(* continueConnecting(), readConfig(), readDirs(), readDevs(),             *)
(* readStatus().                                                           *)
(***************************************************************************)
continueConnecting(s) ==
    IF s.keepPolling /\ s.hasConfig /\ s.hasStatus
    THEN LET s1 == requestErrors(requestDeviceStatistics(
                       requestDirStatistics(requestConnections(s))))
         IN  requestEvents([s1 EXCEPT !.lastEventId = 0])
    ELSE s

startAutoReconnectTimerAlways(s) == [s EXCEPT !.timerActive = TRUE]

\* if(m_autoReconnectTimer.interval()) m_autoReconnectTimer.start();
startAutoReconnectTimer(s) ==
    IF s.autoReconnectInterval # 0 THEN [s EXCEPT !.timerActive = TRUE] ELSE s

\* addDirInfo(newDirs, dirId) as a pair <<m_dirs, newDirs>>: an entry found
\* in m_dirs is moved to newDirs, which leaves an empty id behind in m_dirs.
addDirInfo(old, new, dirId) ==
    LET row == findInfo(old, dirId)
    IN  IF dirId = "" THEN <<old, new>>
        ELSE IF row # 0
        THEN <<[old EXCEPT ![row].id = ""], Append(new, old[row])>>
        ELSE <<old, Append(new, NewDir(dirId))>>

addDevInfo(old, new, devId) ==
    LET row == findInfo(old, devId)
    IN  IF devId = "" THEN <<old, new>>
        ELSE IF row # 0
        THEN <<[old EXCEPT ![row].id = ""], Append(new, old[row])>>
        ELSE <<old, Append(new, NewDev(devId))>>

RECURSIVE readDirsLoop(_, _, _)
readDirsLoop(old, new, folders) ==
    IF folders = <<>> THEN new
    ELSE LET f == Head(folders)
             added == addDirInfo(old, new, f.id)
             n == Len(added[2])
         IN  IF f.id = "" THEN readDirsLoop(old, new, Tail(folders))
             ELSE readDirsLoop(added[1],
                               [added[2] EXCEPT ![n].label = f.label],
                               Tail(folders))

readDirs(s, folders) ==
    Emit([s EXCEPT !.dirs = readDirsLoop(s.dirs, <<>>, folders),
                   !.dirsCap = Len(folders),
                   !.syncedDirs = Invalidate(@),
                   !.completedDirs = Invalidate(@)],
         "newDirs", "")

RECURSIVE readDevsLoop(_, _, _, _)
readDevsLoop(old, new, devices, ownId) ==
    IF devices = <<>> THEN new
    ELSE LET d == Head(devices)
             added == addDevInfo(old, new, d.id)
             n == Len(added[2])
         IN  IF d.id = "" THEN readDevsLoop(old, new, Tail(devices), ownId)
             ELSE readDevsLoop(
                      added[1],
                      [added[2] EXCEPT
                          ![n].name = d.name,
                          ![n].status = IF d.id = ownId THEN "OwnDevice"
                                        ELSE "Unknown"],
                      Tail(devices), ownId)

readDevs(s, devices) ==
    Emit([s EXCEPT !.devs = readDevsLoop(s.devs, <<>>, devices, s.myId)],
         "newDevices", "")

\* The outcomes of a reply: "ok" (NoError and a body that parses), "parse"
\* (NoError and a malformed body), "canceled" (OperationCanceledError),
\* "timeout" (TimeoutError) and "failed" (any other error).
readConfigCanceledAsFailure(s, outcome, payload) ==
    CASE outcome = "ok" ->
            LET s1 == readDevs(readDirs(Emit(s, "newConfig", "payload"),
                                        payload.folders), payload.devices)
                s2 == [s1 EXCEPT !.hasConfig = TRUE]
            IN  IF ~isConnected(s2) THEN continueConnecting(s2) ELSE s2
      [] outcome = "parse" -> Emit(s, "error", "Parsing")
      [] OTHER ->
            startAutoReconnectTimer(
                setStatus(Emit(s, "error", "OverallConnection"),
                          "Disconnected"))

readConfig(s, outcome, payload) ==
    CASE outcome = "ok" ->
            LET s1 == readDevs(readDirs(Emit(s, "newConfig", "payload"),
                                        payload.folders), payload.devices)
                s2 == [s1 EXCEPT !.hasConfig = TRUE]
            IN  IF ~isConnected(s2) THEN continueConnecting(s2) ELSE s2
      [] outcome = "parse" -> Emit(s, "error", "Parsing")
      [] outcome = "canceled" -> s
      [] OTHER ->
            startAutoReconnectTimer(
                setStatus(Emit(s, "error", "OverallConnection"),
                          "Disconnected"))

\* The first device with the own id becomes the own device.
promoteOwnDevice(s) ==
    LET row == findInfo(s.devs, s.myId)
    IN  IF row # 0 THEN [s EXCEPT !.devs[row].status = "OwnDevice"] ELSE s

readStatus(s, outcome, newId) ==
    CASE outcome = "ok" ->
            LET s1 == IF newId # s.myId
                      THEN promoteOwnDevice(
                               Emit([s EXCEPT !.myId = newId],
                                    "myIdChanged", newId))
                      ELSE s
            IN  continueConnecting([s1 EXCEPT !.hasStatus = TRUE])
      [] outcome = "parse" -> Emit(s, "error", "Parsing")
      [] outcome = "canceled" -> s
      [] OTHER -> Emit(s, "error", "OverallConnection")

(***************************************************************************)
(* readConnections(), readDirStatistics(), readDeviceStatistics(),         *)
(* readErrors().                                                           *)
(***************************************************************************)
\* The status of a device that the connections response lists.
connectionStatus(st, connected) ==
    CASE st = "OwnDevice" -> st
      [] st \in {"Disconnected", "Unknown"} ->
            IF connected THEN "Idle" ELSE "Disconnected"
      [] OTHER -> IF ~connected THEN "Disconnected" ELSE st

\* (current - previous) * 0.008 / transferTime in kbit/s, as the fraction
\* <<bits, milliseconds>>: the difference is one of uint64 values, which
\* wraps around (the counters are narrowed to CounterBits bits); the
\* rounding of the double is not modelled.
transferRate(s, current, previous) ==
    LET transferTime == s.now - s.lastConnectionsUpdate
    IN  IF s.lastConnectionsUpdate # 0 /\ transferTime # 0
        THEN <<((current - previous) % (2 ^ CounterBits)) * 8,
               transferTime * 1000>>
        ELSE <<0, 1>>

\* payload.connections maps the ids of the listed devices to their entries.
readConnections(s, outcome, payload) ==
    CASE outcome = "ok" ->
            LET conn == payload.connections
                upd(dev) ==
                    IF dev.id \in DOMAIN conn
                    THEN [dev EXCEPT
                             !.status = connectionStatus(
                                            dev.status, conn[dev.id].connected),
                             !.paused = conn[dev.id].paused]
                    ELSE dev
                s1 == [s EXCEPT
                          !.totalIncomingRate =
                              transferRate(s, payload.inBytesTotal, s.totalIncomingTraffic),
                          !.totalOutgoingRate =
                              transferRate(s, payload.outBytesTotal, s.totalOutgoingTraffic),
                          !.totalIncomingTraffic = payload.inBytesTotal,
                          !.totalOutgoingTraffic = payload.outBytesTotal,
                          !.devs = [i \in DOMAIN s.devs |-> upd(s.devs[i])],
                          !.lastConnectionsUpdate = s.now]
            IN  IF s1.keepPolling THEN singleShot(s1, "connections") ELSE s1
      [] outcome = "parse" -> Emit(s, "error", "Parsing")
      [] outcome = "canceled" -> s
      [] OTHER -> Emit(s, "error", "OverallConnection")

\* payload maps the ids of the listed folders to their statistics: lastScan
\* and at are times (0: one that does not parse), lastFile says whether the
\* entry has a lastFile object.
RECURSIVE readDirStatisticsLoop(_, _, _)
readDirStatisticsLoop(s, payload, row) ==
    IF row > Len(s.dirs) THEN s
    ELSE IF s.dirs[row].id \notin DOMAIN payload
    THEN readDirStatisticsLoop(s, payload, row + 1)
    ELSE LET dirObj == payload[s.dirs[row].id]
             s1 == [s EXCEPT !.dirs[row].lastScanTime = dirObj.lastScan]
             s2 == [s1 EXCEPT !.dirs[row].lastFileName = dirObj.filename]
             s3 == [s2 EXCEPT !.dirs[row].lastFileDeleted = dirObj.deleted,
                              !.dirs[row].lastFileTime = dirObj.at]
             s4 == IF dirObj.at # 0 /\ dirObj.at > s.lastFileTime
                   THEN [s3 EXCEPT !.lastFileTime = dirObj.at,
                                   !.lastFileName = dirObj.filename,
                                   !.lastFileDeleted = dirObj.deleted]
                   ELSE s3
         IN  readDirStatisticsLoop(
                 IF ~dirObj.lastFile THEN s1
                 ELSE IF dirObj.filename = "" THEN s2
                 ELSE s4,
                 payload, row + 1)

readDirStatistics(s, outcome, payload) ==
    CASE outcome = "ok" -> readDirStatisticsLoop(s, payload, 1)
      [] outcome = "parse" -> Emit(s, "error", "Parsing")
      [] outcome = "canceled" -> s
      [] OTHER -> Emit(s, "error", "OverallConnection")

readDeviceStatistics(s, outcome) ==
    CASE outcome = "ok" ->
            IF s.keepPolling THEN singleShot(s, "devStats") ELSE s
      [] outcome = "parse" -> Emit(s, "error", "Parsing")
      [] outcome = "canceled" -> s
      [] OTHER -> Emit(s, "error", "OverallConnection")

\* errors: the listed errors in the order of the response, each a record
\* [when, message]; when = 0 stands for a time that does not convert.  The
\* null m_lastErrorTime is replaced by the current time whatever the outcome.
RECURSIVE notifyAll(_, _)
notifyAll(s, errors) ==
    IF errors = <<>> THEN s
    ELSE LET e == Head(errors)
         IN  IF e.when # 0 /\ s.lastErrorTime < e.when
             THEN notifyAll(emitNotification([s EXCEPT !.lastErrorTime = e.when],
                                             e.message),
                            Tail(errors))
             ELSE notifyAll(s, Tail(errors))

readErrors(s, outcome, errors) ==
    LET s0 == IF s.lastErrorTime = 0 THEN [s EXCEPT !.lastErrorTime = s.now]
              ELSE s
    IN  CASE outcome \in {"ok", "parse"} ->
                LET s1 == IF outcome = "ok" THEN notifyAll(s0, errors)
                          ELSE Emit(s0, "error", "Parsing")
                IN  IF s1.keepPolling THEN singleShot(s1, "errors") ELSE s1
          [] outcome = "canceled" -> s0
          [] OTHER -> Emit(s0, "error", "OverallConnection")

(***************************************************************************)
(* readEvents() and the handlers of the events.  An event is a record      *)
(* [id, type, a, b, errs, n]: a is the folder or device (the home          *)
(* directory of Starting), b the target state of StateChanged (the own id  *)
(* of Starting), errs the errors of FolderErrors, n the file count of      *)
(* FolderSummary and the current item of FolderScanProgress.               *)
(***************************************************************************)
readStartingEvent(s, ev) ==
    LET s1 == IF ev.a # s.configDir
              THEN Emit([s EXCEPT !.configDir = ev.a], "configDirChanged", ev.a)
              ELSE s
    IN  IF ev.b # s1.myId
        THEN Emit([s1 EXCEPT !.myId = ev.b], "configDirChanged", ev.b)
        ELSE s1

\* SyncthingDir::assignStatus(const QString &, DateTime)
statusByName(name) ==
    CASE name = "idle" -> "Idle"
      [] name = "scanning" -> "Scanning"
      [] name = "syncing" -> "Synchronizing"
      [] name = "error" -> "OutOfSync"
      [] OTHER -> "Unknown"
assignStatus(dir, name) == [dir EXCEPT !.status = statusByName(name)]

\* std::vector::emplace_back: a full vector moves to a new buffer.
GrowCapacity(cap) == IF cap = 0 THEN 1 ELSE 2 * cap
emplaceBackDir(s, dir) ==
    IF Len(s.dirs) < s.dirsCap THEN [s EXCEPT !.dirs = Append(@, dir)]
    ELSE [s EXCEPT !.dirs = Append(@, dir),
                   !.dirsCap = GrowCapacity(@),
                   !.syncedDirs = Invalidate(@),
                   !.completedDirs = Invalidate(@)]

readStatusChangedEventNoRefetch(s, ev) ==
    LET row == findDirInfo(s, ev.a)
    IN  IF ev.a = "" THEN s
        ELSE IF row # 0
        THEN [s EXCEPT !.dirs[row] = assignStatus(@, ev.b)]
        ELSE emplaceBackDir(s, assignStatus(NewDir(ev.a), ev.b))

readStatusChangedEvent(s, ev) ==
    LET row == findDirInfo(s, ev.a)
    IN  IF ev.a = "" THEN s
        ELSE IF row # 0
        THEN [s EXCEPT !.dirs[row] = assignStatus(@, ev.b)]
        ELSE requestConfig(emplaceBackDir(s, assignStatus(NewDir(ev.a), ev.b)))

InSeq(x, seq) == \E i \in DOMAIN seq : seq[i] = x

RECURSIVE readFolderErrorsAlwaysNotifies(_, _, _)
readFolderErrorsAlwaysNotifies(s, row, errs) ==
    IF errs = <<>> THEN s
    ELSE LET e == Head(errs)
             s1 == [s EXCEPT !.dirs[row].errors = Append(@, e),
                             !.dirs[row].status = "OutOfSync"]
         IN  IF InSeq(e, s.dirs[row].errors)
             THEN readFolderErrorsAlwaysNotifies(s, row, Tail(errs))
             ELSE readFolderErrorsAlwaysNotifies(emitNotification(s1, e), row,
                                                 Tail(errs))

RECURSIVE readFolderErrors(_, _, _)
readFolderErrors(s, row, errs) ==
    IF errs = <<>> THEN s
    ELSE LET e == Head(errs)
             dir == s.dirs[row]
             s1 == [s EXCEPT !.dirs[row].errors = Append(@, e),
                             !.dirs[row].status = "OutOfSync"]
         IN  IF InSeq(e, dir.errors) THEN readFolderErrors(s, row, Tail(errs))
             ELSE IF InSeq(e, dir.previousErrors)
             THEN readFolderErrors(s1, row, Tail(errs))
             ELSE readFolderErrors(emitNotification(s1, e), row, Tail(errs))

readDirEvent(s, ev) ==
    LET row == findDirInfo(s, ev.a)
    IN  IF ev.a = "" \/ row = 0 THEN s
        ELSE CASE ev.type = "FolderErrors" -> readFolderErrors(s, row, ev.errs)
               [] ev.type = "FolderSummary" ->
                     [s EXCEPT !.dirs[row].globalFiles = ev.n]
               [] ev.type = "FolderScanProgress" ->
                     IF ev.n > 0
                     THEN [s EXCEPT !.dirs[row].status = "Scanning"]
                     ELSE s
               [] OTHER -> s

readDeviceEventAlwaysAssign(s, ev) ==
    LET row == findDevInfo(s, ev.a)
        dev == s.devs[row]
        known == ev.type \in {"DeviceConnected", "DeviceDisconnected",
                              "DevicePaused", "DeviceRejected",
                              "DeviceResumed", "DeviceDiscovered"}
        st == CASE ev.type = "DeviceConnected" -> "Idle"
                [] ev.type = "DeviceDisconnected" -> "Disconnected"
                [] ev.type = "DeviceRejected" -> "Rejected"
                [] ev.type = "DeviceResumed" -> "Disconnected"
                [] ev.type = "DeviceDiscovered" /\ dev.status = "Unknown" ->
                      "Disconnected"
                [] OTHER -> dev.status
        paused == CASE ev.type = "DevicePaused" -> TRUE
                    [] ev.type = "DeviceResumed" -> FALSE
                    [] OTHER -> dev.paused
    IN  IF ev.a = "" \/ row = 0 \/ ~known THEN s
        ELSE IF dev.status # st \/ dev.paused # paused
        THEN [s EXCEPT !.devs[row].status = st, !.devs[row].paused = paused]
        ELSE s

readDeviceEventKeepsRejected(s, ev) ==
    IF ev.type = "DeviceRejected" THEN s
    ELSE readDeviceEventAlwaysAssign(s, ev)

readDeviceEvent(s, ev) ==
    LET row == findDevInfo(s, ev.a)
        dev == s.devs[row]
        known == ev.type \in {"DeviceConnected", "DeviceDisconnected",
                              "DevicePaused", "DeviceRejected",
                              "DeviceResumed", "DeviceDiscovered"}
        st == CASE ev.type = "DeviceConnected" -> "Idle"
                [] ev.type = "DeviceDisconnected" -> "Disconnected"
                [] ev.type = "DeviceRejected" -> "Rejected"
                [] ev.type = "DeviceResumed" -> "Disconnected"
                [] ev.type = "DeviceDiscovered" /\ dev.status = "Unknown" ->
                      "Disconnected"
                [] OTHER -> dev.status
        paused == CASE ev.type = "DevicePaused" -> TRUE
                    [] ev.type = "DeviceResumed" -> FALSE
                    [] OTHER -> dev.paused
        \* eventTime.isNull() && m_lastConnectionsUpdate.isNull()
        \*     && eventTime < m_lastConnectionsUpdate
        ignored == /\ ev.time = 0
                   /\ s.lastConnectionsUpdate = 0
                   /\ ev.time < s.lastConnectionsUpdate
    IN  IF ignored \/ ev.a = "" \/ row = 0 \/ ~known THEN s
        ELSE IF dev.status # st \/ dev.paused # paused
        THEN [s EXCEPT !.devs[row].status =
                           IF dev.status # "OwnDevice" THEN st ELSE @,
                       !.devs[row].paused = paused]
        ELSE s

\* The sum of the k-th components of the items.
RECURSIVE SumOf(_, _)
SumOf(items, k) ==
    IF items = <<>> THEN 0 ELSE Head(items)[k] + SumOf(Tail(items), k)

\* One directory of readDownloadProgressEvent(): the products of unsigned
\* int values wrap around (narrowed to CounterBits bits).
downloadProgressOf(dir, progress) ==
    LET listed == {i \in DOMAIN progress : progress[i].dir = dir.id}
        items == IF listed = {} THEN <<>>
                 ELSE progress[CHOOSE i \in listed : TRUE].items
        already == SumOf(items, 1)
        total == SumOf(items, 2)
    IN  [dir EXCEPT
            !.downloadingItems = items,
            !.blocksAlreadyDownloaded = already,
            !.blocksToBeDownloaded = total,
            !.downloadPercentage =
                IF already > 0 /\ total > 0
                THEN ((already * 100) % (2 ^ CounterBits)) \div total
                ELSE 0]

readDownloadProgressEvent(s, ev) ==
    Emit([s EXCEPT !.dirs = [i \in DOMAIN s.dirs |->
                                downloadProgressOf(s.dirs[i], ev.progress)]],
         "downloadProgressChanged", "")

readItemFinishedFolderOnly(s, ev) ==
    LET row == findDirInfo(s, ev.a)
    IN  IF ev.a = "" \/ row = 0 \/ ev.b # "" THEN s
        ELSE IF s.dirs[row].lastFileTime = 0 \/ ev.time < s.dirs[row].lastFileTime
        THEN [s EXCEPT !.dirs[row].lastFileTime = ev.time,
                       !.dirs[row].lastFileName = ev.item,
                       !.dirs[row].lastFileDeleted = ev.action # "delete"]
        ELSE s

readItemFinished(s, ev) ==
    LET row == findDirInfo(s, ev.a)
        dir == s.dirs[row]
        deleted == ev.action # "delete"
        s1 == [s EXCEPT !.dirs[row].lastFileTime = ev.time,
                        !.dirs[row].lastFileName = ev.item,
                        !.dirs[row].lastFileDeleted = deleted]
    IN  IF ev.a = "" \/ row = 0 THEN s
        ELSE IF ev.b = ""
        THEN IF dir.lastFileTime = 0 \/ ev.time < dir.lastFileTime
             THEN IF ev.time > s.lastFileTime
                  THEN [s1 EXCEPT !.lastFileTime = ev.time,
                                  !.lastFileName = ev.item,
                                  !.lastFileDeleted = deleted]
                  ELSE s1
             ELSE s
        ELSE IF dir.status = "OutOfSync"
        THEN emitNotification(
                 [s EXCEPT !.dirs[row].errors = Append(@, ev.b),
                           !.dirs[row].status = "OutOfSync"], ev.b)
        ELSE s

readItemStarted(s, ev) == s

\* eventType.startsWith("Folder"), eventType.startsWith("Device")
FolderEventTypes ==
    {"FolderErrors", "FolderSummary", "FolderCompletion",
     "FolderScanProgress", "FolderOther"}
DeviceEventTypes ==
    {"DeviceConnected", "DeviceDisconnected", "DevicePaused",
     "DeviceRejected", "DeviceResumed", "DeviceDiscovered", "DeviceOther"}

readEvent(s, ev) ==
    LET s1 == [s EXCEPT !.lastEventId = ev.id]
    IN  CASE ev.type = "Starting" -> readStartingEvent(s1, ev)
          [] ev.type = "StateChanged" -> readStatusChangedEvent(s1, ev)
          [] ev.type = "DownloadProgress" -> readDownloadProgressEvent(s1, ev)
          [] ev.type \in FolderEventTypes -> readDirEvent(s1, ev)
          [] ev.type \in DeviceEventTypes -> readDeviceEvent(s1, ev)
          [] ev.type = "ItemStarted" -> readItemStarted(s1, ev)
          [] ev.type = "ItemFinished" -> readItemFinished(s1, ev)
          [] ev.type = "ConfigSaved" -> requestConfig(s1)
          [] OTHER -> s1

RECURSIVE readEventsLoop(_, _)
readEventsLoop(s, batch) ==
    IF batch = <<>> THEN s
    ELSE readEventsLoop(readEvent(s, Head(batch)), Tail(batch))

readEventsPollsFirst(s, outcome, batch) ==
    LET s1 == IF outcome = "ok" THEN readEventsLoop(requestEvents(s), batch)
              ELSE requestEvents(s)
    IN  CASE outcome \in {"ok", "timeout"} ->
                IF s.keepPolling THEN setStatus(s1, "Idle")
                ELSE setStatus(s, "Disconnected")
          [] outcome = "parse" ->
                startAutoReconnectTimer(
                    setStatus(Emit(s, "error", "Parsing"), "Disconnected"))
          [] outcome = "canceled" ->
                IF s.reconnecting THEN continueReconnecting(s)
                ELSE setStatus(s, "Disconnected")
          [] OTHER ->
                startAutoReconnectTimer(
                    setStatus(Emit(s, "error", "OverallConnection"),
                              "Disconnected"))

readEvents(s, outcome, batch) ==
    LET s1 == IF outcome = "ok" THEN readEventsLoop(s, batch) ELSE s
    IN  CASE outcome \in {"ok", "timeout"} ->
                IF s1.keepPolling THEN setStatus(requestEvents(s1), "Idle")
                ELSE setStatus(s1, "Disconnected")
          [] outcome = "parse" ->
                startAutoReconnectTimer(
                    setStatus(Emit(s, "error", "Parsing"), "Disconnected"))
          [] outcome = "canceled" ->
                IF s.reconnecting THEN continueReconnecting(s)
                ELSE setStatus(s, "Disconnected")
          [] OTHER ->
                startAutoReconnectTimer(
                    setStatus(Emit(s, "error", "OverallConnection"),
                              "Disconnected"))

(***************************************************************************)
(* One-off commands: pause, resume, rescan, restart and shutdown.  Their   *)
(* replies are not kept in any m_<ep>Reply, so nothing aborts them.        *)
(***************************************************************************)
CommandEndpoints == {"pause", "resume", "rescan", "restart", "shutdown"}

\* postData() and the properties set on the reply: arg is the property devId
\* or dirId, resume the property of that name.
postData(s, ep, arg, resumeProperty) ==
    [s EXCEPT !.replies = @ (+) SetToBag({[ep |-> ep, cur |-> FALSE,
                                             aborted |-> FALSE, since |-> 0,
                                             arg |-> arg,
                                             resume |-> resumeProperty]}),
              !.out = Append(@, <<"request", ep>>)]

pause(s, devId) == postData(s, "pause", devId, FALSE)
resume(s, devId) == postData(s, "resume", devId, TRUE)
rescan(s, dirId) == postData(s, "rescan", dirId, FALSE)
restart(s) == postData(s, "restart", "", FALSE)
shutdown(s) == postData(s, "shutdown", "", FALSE)

readRescan(s, outcome, dirId) ==
    IF outcome = "ok" THEN Emit(s, "rescanTriggered", dirId)
    ELSE Emit(s, "error", "SpecificRequest")

readPauseResumeIgnoresProperty(s, outcome, resumeProperty, devId) ==
    IF outcome = "ok" THEN Emit(s, "pauseTriggered", devId)
    ELSE Emit(s, "error", "SpecificRequest")

readPauseResume(s, outcome, resumeProperty, devId) ==
    IF outcome = "ok"
    THEN IF resumeProperty THEN Emit(s, "resumeTriggered", devId)
         ELSE Emit(s, "pauseTriggered", devId)
    ELSE Emit(s, "error", "SpecificRequest")

readRestart(s, outcome) ==
    IF outcome = "ok" THEN Emit(s, "restartTriggered", "")
    ELSE Emit(s, "error", "SpecificRequest")

readShutdown(s, outcome) ==
    IF outcome = "ok" THEN Emit(s, "shutdownTriggered", "")
    ELSE Emit(s, "error", "SpecificRequest")

(***************************************************************************)
(* The inputs: settings, responses of the daemon, events.                  *)
(***************************************************************************)
FullSetting(url, key, interval, auth, name, pass, sslErrors) ==
    [syncthingUrl |-> url, apiKey |-> key, reconnectInterval |-> interval,
     authEnabled |-> auth, userName |-> name, password |-> pass,
     expectedSslErrors |-> sslErrors]
Setting(url, key, interval) ==
    FullSetting(url, key, interval, FALSE, "", "", "")
\* The certificates loadSelfSignedCertificate() may find for a setting.
Certificates == {"", "certA"}
CertificatesFor(cs) ==
    IF SecureLocal(cs.syncthingUrl) /\ cs.expectedSslErrors = "" THEN Certificates
    ELSE {""}
Settings == {Setting("u", "k", 1), Setting("u", "", 1)}
InitialSettings ==
    {Setting("u", "k", 0), Setting("u", "", 0), Setting("", "k", 0)}

Folder(id, label) == [id |-> id, label |-> label]
Device(id, name) == [id |-> id, name |-> name]
Config(folders, devices) == [folders |-> folders, devices |-> devices]
ConfigA ==
    Config(<<Folder("a", "A")>>, <<Device("d1", "own"), Device("d2", "peer")>>)
ConfigB ==
    Config(<<Folder("b", "B"), Folder("a", "A2")>>,
           <<Device("d2", "peer2"), Device("d1", "own")>>)
ConfigC == Config(<<>>, <<Device("d1", "own")>>)

OwnIds == {"d1"}

Connection(connected, paused) == [connected |-> connected, paused |-> paused]
ConnectionsOf(c) ==
    [inBytesTotal |-> 1, outBytesTotal |-> 1, connections |-> c]
PeerPaused == ConnectionsOf("d2" :> Connection(TRUE, TRUE))
PeerConnected == ConnectionsOf("d2" :> Connection(TRUE, FALSE))
AllDisconnected ==
    ConnectionsOf(("d1" :> Connection(FALSE, TRUE)) @@
                  ("d2" :> Connection(FALSE, FALSE)))
AllConnected ==
    ConnectionsOf(("d1" :> Connection(TRUE, FALSE)) @@
                  ("d2" :> Connection(TRUE, FALSE)))

Event(type, a, b, errs, n) ==
    [id |-> 0, type |-> type, a |-> a, b |-> b, errs |-> errs, n |-> n,
     time |-> 0, item |-> "", action |-> "", progress |-> <<>>]
\* An event with a timestamp (0: none, or one that does not parse).
At(ev, time) == [ev EXCEPT !.time = time]
ItemFinished(folder, error, item, action) ==
    [Event("ItemFinished", folder, error, <<>>, 0)
        EXCEPT !.item = item, !.action = action]
\* progress lists, per folder id, the <<blocks downloaded, total blocks>> of
\* the items in flight.
DownloadProgress(progress) ==
    [Event("DownloadProgress", "", "", <<>>, 0) EXCEPT !.progress = progress]
StateChanged(folder, to) == Event("StateChanged", folder, to, <<>>, 0)
DeviceEvent(type, device) == Event(type, device, "", <<>>, 0)
ConfigSaved == Event("ConfigSaved", "", "", <<>>, 0)

\* The inputs of the specification of the connection's life cycle.
CoreConfigs == {ConfigA}
CoreEvents == {ConfigSaved}
CoreConnections == {PeerPaused}
CoreErrorLists == {<<[when |-> MaxClock + 1, message |-> "daemon error"]>>}

\* The inputs of the specification of the entity model.
EntityConfigs == {ConfigA, ConfigB, ConfigC}
EntityConnections ==
    {PeerPaused, PeerConnected, AllDisconnected, AllConnected}
EntityEvents ==
    {StateChanged("a", "syncing"), StateChanged("a", "idle"),
     StateChanged("b", "scanning"), StateChanged("b", "syncing"),
     StateChanged("c", "idle"),
     Event("FolderErrors", "a", "", <<"e1">>, 0),
     Event("FolderScanProgress", "a", "", <<>>, 1),
     Event("FolderSummary", "a", "", <<>>, 1),
     Event("Starting", "home", "d2", <<>>, 0),
     ConfigSaved}
    \cup {DeviceEvent(type, "d2") : type \in DeviceEventTypes}
    \cup {DeviceEvent(type, "d1") :
            type \in {"DeviceDisconnected", "DeviceRejected", "DevicePaused"}}

\* The batches the daemon may answer an events request with: up to MaxBatch
\* events with the ids that follow since.
RECURSIVE EventSeqs(_, _)
EventSeqs(events, n) ==
    IF n = 0 THEN {<<>>}
    ELSE LET shorter == EventSeqs(events, n - 1)
         IN  shorter \cup {Append(q, e) : q \in {x \in shorter : Len(x) = n - 1},
                                         e \in events}
Batches(events, since) ==
    {[i \in DOMAIN q |-> [q[i] EXCEPT !.id = since + i]] :
        q \in {x \in EventSeqs(events, MaxBatch) :
                  x # <<>> /\ since + Len(x) <= MaxEventId}}

(***************************************************************************)
(* The actions: one per command, timer and completion handler.             *)
(***************************************************************************)
MaxInFlight == 2
InFlight(s, ep) ==
    BagCardinality([r \in {x \in BagToSet(s.replies) : x.ep = ep} |-> s.replies[r]])
    + (IF ep \in TimerEndpoints THEN s.timers[ep] ELSE 0)
WithinBounds(s) ==
    /\ \A ep \in Endpoints : InFlight(s, ep) <= MaxInFlight
    /\ s.commands <= MaxCommands
    /\ s.failures <= MaxFailures

Do(s) == WithinBounds(s) /\ Apply(s)

Alive == status # "BeingDestroyed"
Command == [St EXCEPT !.commands = @ + 1]

Connect == Alive /\ Do(connect(Command))
ConnectSettingsOf(settings) ==
    /\ Alive
    /\ \E cs \in settings : \E cert \in CertificatesFor(cs) :
           Do(connectSettings(Command, cs, cert))
ConnectSettings == ConnectSettingsOf(Settings)
Disconnect == Alive /\ Do(disconnect(Command))
Reconnect == Alive /\ Do(reconnect(Command))
ReconnectSettings ==
    /\ Alive
    /\ \E cs \in Settings : \E cert \in CertificatesFor(cs) :
           Do(reconnectSettings(Command, cs, cert))
Destroy == Alive /\ Do(destroy(Command))

AutoReconnect == Alive /\ timerActive /\ Do(autoReconnect(St))

TimerFires(ep) ==
    /\ Alive
    /\ timers[ep] > 0
    /\ LET s == [St EXCEPT !.timers[ep] = @ - 1]
       IN  Do(CASE ep = "connections" -> requestConnections(s)
                [] ep = "devStats" -> requestDeviceStatistics(s)
                [] ep = "errors" -> requestErrors(s))

\* The state in which the handler of reply r starts: the reply is finished
\* (and m_<ep>Reply reset if it pointed to r); a failed response is counted.
Finished(r, outcome) ==
    [St EXCEPT !.replies = @ (-) SetToBag({r}),
               !.failures = IF outcome \in {"parse", "failed"} THEN @ + 1 ELSE @]

\* An aborted reply finishes as canceled and no other does; the slots of a
\* destroyed object are called only from the aborts of its destructor.
CanFinish(r, ep, outcome) ==
    /\ r \in BagToSet(replies)
    /\ r.ep = ep
    /\ r.aborted <=> outcome = "canceled"
    /\ Alive \/ r.aborted

Outcomes == {"ok", "parse", "failed", "canceled"}
Successes == {"ok", "canceled"}

ReadConfig(outcome, configs) ==
    \E r \in BagToSet(replies) :
        /\ CanFinish(r, "config", outcome)
        /\ \E payload \in IF outcome = "ok" THEN configs ELSE {ConfigA} :
               Do(readConfig(Finished(r, outcome), outcome, payload))

ReadStatus(outcome) ==
    \E r \in BagToSet(replies) :
        /\ CanFinish(r, "status", outcome)
        /\ \E id \in OwnIds : Do(readStatus(Finished(r, outcome), outcome, id))

ReadConnections(outcome, payloads) ==
    \E r \in BagToSet(replies) :
        /\ CanFinish(r, "connections", outcome)
        /\ \E payload \in IF outcome = "ok" THEN payloads ELSE {PeerPaused} :
               Do(readConnections(Finished(r, outcome), outcome, payload))

ReadDirStatisticsOf(outcome, payloads) ==
    \E r \in BagToSet(replies) :
        /\ CanFinish(r, "dirStats", outcome)
        /\ \E payload \in IF outcome = "ok" THEN payloads ELSE {<<>>} :
               Do(readDirStatistics(Finished(r, outcome), outcome, payload))
\* A response that lists no folder.
ReadDirStatistics(outcome) == ReadDirStatisticsOf(outcome, {<<>>})

ReadDeviceStatistics(outcome) ==
    \E r \in BagToSet(replies) :
        /\ CanFinish(r, "devStats", outcome)
        /\ Do(readDeviceStatistics(Finished(r, outcome), outcome))

ReadErrorsOf(outcome, lists) ==
    \E r \in BagToSet(replies) :
        /\ CanFinish(r, "errors", outcome)
        /\ \E errors \in IF outcome = "ok" THEN lists ELSE {<<>>} :
               Do(readErrors(Finished(r, outcome), outcome, errors))

ReadErrors(outcome) == ReadErrorsOf(outcome, CoreErrorLists)

ReadEvents(outcome, events) ==
    \E r \in BagToSet(replies) :
        /\ CanFinish(r, "events", outcome)
        /\ \E batch \in IF outcome = "ok" THEN Batches(events, r.since)
                        ELSE {<<>>} :
               Do(readEvents(Finished(r, outcome), outcome, batch))

\* The one-off commands in flight are bounded by MaxOneOff.
MaxOneOff == 1
OneOff(ep) ==
    /\ Alive
    /\ BagCardinality([r \in {x \in BagToSet(replies) :
                                  x.ep \in CommandEndpoints} |-> replies[r]])
       < MaxOneOff
    /\ \E id \in {"a", "d2"} :
           Do(CASE ep = "pause" -> pause(St, id)
                [] ep = "resume" -> resume(St, id)
                [] ep = "rescan" -> rescan(St, id)
                [] ep = "restart" -> restart(St)
                [] ep = "shutdown" -> shutdown(St))

\* Any error of the reply, OperationCanceledError included, is a failure.
ReadOneOff(ep, outcome) ==
    \E r \in BagToSet(replies) :
        /\ CanFinish(r, ep, outcome)
        /\ LET s == Finished(r, outcome)
           IN  Do(CASE ep \in {"pause", "resume"} ->
                          readPauseResume(s, outcome, r.resume, r.arg)
                    [] ep = "rescan" -> readRescan(s, outcome, r.arg)
                    [] ep = "restart" -> readRestart(s, outcome)
                    [] ep = "shutdown" -> readShutdown(s, outcome))

\* A second passes.
Tick == now < MaxClock /\ Apply([St EXCEPT !.now = @ + 1])

Init ==
    /\ \E cs \in InitialSettings :
           /\ syncthingUrl = cs.syncthingUrl
           /\ apiKey = cs.apiKey
    /\ user = ""
    /\ password = ""
    /\ expectedSslErrors = ""
    /\ autoReconnectInterval = 0
    /\ timerActive = FALSE
    /\ autoReconnectTries = 0
    /\ status = "Disconnected"
    /\ keepPolling = FALSE
    /\ reconnecting = FALSE
    /\ hasConfig = FALSE
    /\ hasStatus = FALSE
    /\ lastEventId = 0
    /\ myId = ""
    /\ configDir = ""
    /\ dirs = <<>>
    /\ dirsCap = 0
    /\ devs = <<>>
    /\ syncedDirs = {}
    /\ completedDirs = {}
    /\ unreadNotifications = FALSE
    /\ totalIncomingTraffic = 0
    /\ totalOutgoingTraffic = 0
    /\ totalIncomingRate = <<0, 1>>
    /\ totalOutgoingRate = <<0, 1>>
    /\ lastConnectionsUpdate = 0
    /\ lastFileTime = 0
    /\ lastFileName = ""
    /\ lastFileDeleted = FALSE
    /\ lastErrorTime = 0
    /\ now = 1
    /\ replies = EmptyBag
    /\ timers = [ep \in TimerEndpoints |-> 0]
    /\ commands = 0
    /\ failures = 0
    /\ out = <<>>

(***************************************************************************)
(* The daemon answers the polling requests of an established connection    *)
(* before it answers anything else: a config, status or events response    *)
(* and the reconnect timer are handled when no polling request is pending. *)
(***************************************************************************)
PollerEndpoints == {"connections", "dirStats", "devStats", "errors"}
Quiet == \A r \in BagToSet(replies) : r.ep \notin PollerEndpoints

(***************************************************************************)
(* The life cycle of the connection: every command, the auto-reconnect     *)
(* timer and every outcome of every request.  The polling timers do not    *)
(* expire.                                                                 *)
(***************************************************************************)
Next ==
    \/ Connect
    \/ ConnectSettings
    \/ Disconnect
    \/ Reconnect
    \/ ReconnectSettings
    \/ Destroy
    \/ Quiet /\ AutoReconnect
    \/ Quiet /\ \E outcome \in Outcomes : ReadConfig(outcome, CoreConfigs)
    \/ Quiet /\ \E outcome \in Outcomes : ReadStatus(outcome)
    \/ Quiet /\ \E outcome \in Outcomes \cup {"timeout"} :
                    ReadEvents(outcome, CoreEvents)
    \/ \E outcome \in Successes : ReadConnections(outcome, CoreConnections)
    \/ \E outcome \in Successes : ReadDirStatistics(outcome)
    \/ \E outcome \in Successes : ReadDeviceStatistics(outcome)
    \/ \E outcome \in Successes : ReadErrors(outcome)

Spec == Init /\ [][Next]_vars

(***************************************************************************)
(* The pollers: the polling timers and every outcome of the connections,   *)
(* statistics and errors requests, around connect, disconnect and          *)
(* reconnect with responses that arrive.                                   *)
(***************************************************************************)
NextPollers ==
    \/ Connect
    \/ Disconnect
    \/ Reconnect
    \/ \E ep \in TimerEndpoints : TimerFires(ep)
    \/ Quiet /\ \E outcome \in Successes : ReadConfig(outcome, CoreConfigs)
    \/ Quiet /\ \E outcome \in Successes : ReadStatus(outcome)
    \/ Quiet /\ \E outcome \in {"timeout", "canceled"} : ReadEvents(outcome, CoreEvents)
    \/ \E outcome \in Outcomes : ReadConnections(outcome, CoreConnections)
    \/ \E outcome \in Outcomes : ReadDirStatistics(outcome)
    \/ \E outcome \in Outcomes : ReadDeviceStatistics(outcome)
    \/ \E outcome \in Outcomes : ReadErrors(outcome)

SpecPollers == Init /\ [][NextPollers]_vars

(***************************************************************************)
(* The entity model: the responses and events of an established            *)
(* connection, over every configuration, connections response and event.   *)
(***************************************************************************)
NextEntities ==
    \/ replies = EmptyBag /\ Connect
    \/ Quiet /\ ReadConfig("ok", EntityConfigs)
    \/ Quiet /\ ReadStatus("ok")
    \/ Quiet /\ \E outcome \in {"ok", "timeout"} : ReadEvents(outcome, EntityEvents)
    \/ ReadConnections("ok", EntityConnections)
    \/ ReadDirStatistics("ok")
    \/ ReadDeviceStatistics("ok")
    \/ ReadErrors("ok")
    \/ TimerFires("connections")

SpecEntities == Init /\ [][NextEntities]_vars

(***************************************************************************)
(* The event batches: the responses to the events requests of one          *)
(* established connection, with up to MaxLongBatch events each.            *)
(***************************************************************************)
MaxLongBatch == 2
BatchEvents ==
    {StateChanged("a", "syncing"), StateChanged("a", "idle"),
     StateChanged("b", "scanning"), DeviceEvent("DevicePaused", "d2"),
     ConfigSaved}
LongBatches(events, since) ==
    {[i \in DOMAIN q |-> [q[i] EXCEPT !.id = since + i]] :
        q \in {x \in EventSeqs(events, MaxLongBatch) :
                  x # <<>> /\ since + Len(x) <= MaxEventId}}

ReadEventBatch(outcome) ==
    \E r \in BagToSet(replies) :
        /\ CanFinish(r, "events", outcome)
        /\ \E batch \in IF outcome = "ok" THEN LongBatches(BatchEvents, r.since)
                        ELSE {<<>>} :
               Do(readEvents(Finished(r, outcome), outcome, batch))

NextBatches ==
    \/ replies = EmptyBag /\ Connect
    \/ Quiet /\ ReadConfig("ok", EntityConfigs)
    \/ Quiet /\ ReadStatus("ok")
    \/ Quiet /\ \E outcome \in {"ok", "timeout"} : ReadEventBatch(outcome)
    \/ ReadConnections("ok", CoreConnections)
    \/ ReadDirStatistics("ok")
    \/ ReadDeviceStatistics("ok")
    \/ ReadErrors("ok")

SpecBatches == Init /\ [][NextBatches]_vars

(***************************************************************************)
(* The settings: connect(settings) with every combination of URL,          *)
(* credentials, expected SSL errors and reconnect interval, before and     *)
(* after the connection is established.                                    *)
(***************************************************************************)
RichSettings ==
    {FullSetting(url, "k", interval, auth[1], auth[2], auth[3], sslErrors) :
        url \in {"u", "https-local"}, interval \in {0, 1},
        auth \in {<<FALSE, "", "">>, <<TRUE, "me", "pw">>},
        sslErrors \in Certificates}

NextSettings ==
    \/ ConnectSettingsOf(RichSettings)
    \/ Quiet /\ ReadConfig("ok", CoreConfigs)
    \/ Quiet /\ ReadStatus("ok")
    \/ Quiet /\ \E outcome \in {"timeout", "canceled"} : ReadEvents(outcome, CoreEvents)
    \/ \E outcome \in Successes : ReadConnections(outcome, CoreConnections)
    \/ \E outcome \in Successes : ReadDirStatistics(outcome)
    \/ \E outcome \in Successes : ReadDeviceStatistics(outcome)
    \/ \E outcome \in Successes : ReadErrors(outcome)

SpecSettings == Init /\ [][NextSettings]_vars

(***************************************************************************)
(* The retries: connection attempts whose config, status or events         *)
(* response fails, and the expiries of the auto-reconnect timer that       *)
(* follow.  The failed responses are bounded by the expiries in a row and  *)
(* not counted.                                                            *)
(***************************************************************************)
MaxTries == 2

\* The failures after which the auto-reconnect timer is started.
ArmingFailures ==
    {<<"config", "failed">>, <<"events", "parse">>, <<"events", "failed">>}

\* The timer expires when the config and status requests of the attempts
\* before it have completed.
Settled ==
    \A r \in BagToSet(replies) :
        r.ep \notin PollerEndpoints \cup {"config", "status"}

\* A failed completion of the config, status or events request.
FailedAttempt(ep, outcome) ==
    \E r \in BagToSet(replies) :
        /\ CanFinish(r, ep, outcome)
        /\ LET s == [St EXCEPT !.replies = @ (-) SetToBag({r})]
           IN  Do(CASE ep = "config" -> readConfig(s, outcome, ConfigA)
                    [] ep = "status" -> readStatus(s, outcome, "d1")
                    [] ep = "events" -> readEvents(s, outcome, <<>>))

NextRetry ==
    \/ Connect
    \/ ConnectSettings
    \/ Disconnect
    \/ Reconnect
    \/ Settled /\ autoReconnectTries < MaxTries /\ AutoReconnect
    \/ Quiet /\ \E site \in ArmingFailures : FailedAttempt(site[1], site[2])
    \/ Quiet /\ \E outcome \in Successes : ReadConfig(outcome, CoreConfigs)
    \/ Quiet /\ \E outcome \in Successes : ReadStatus(outcome)
    \/ Quiet /\ \E outcome \in {"ok", "timeout", "canceled"} : ReadEvents(outcome, CoreEvents)
    \/ \E outcome \in Successes : ReadConnections(outcome, CoreConnections)
    \/ \E outcome \in Successes : ReadDirStatistics(outcome)
    \/ \E outcome \in Successes : ReadDeviceStatistics(outcome)
    \/ \E outcome \in Successes : ReadErrors(outcome)

SpecRetry == Init /\ [][NextRetry]_vars

(***************************************************************************)
(* The ids: configuration refreshes over payloads that list an id once,    *)
(* twice or not at all, folders created by StateChanged events, and        *)
(* reconnects.                                                             *)
(***************************************************************************)
ConfigTwice ==
    Config(<<Folder("a", "A"), Folder("a", "A3")>>,
           <<Device("d1", "own"), Device("d2", "peer"), Device("d2", "peer3")>>)

NextIds ==
    \/ replies = EmptyBag /\ Connect
    \/ Quiet /\ Reconnect
    \/ Quiet /\ \E outcome \in Successes : ReadConfig(outcome, {ConfigA, ConfigC, ConfigTwice})
    \/ Quiet /\ \E outcome \in Successes : ReadStatus(outcome)
    \/ Quiet /\ \E outcome \in {"ok", "timeout", "canceled"} :
           ReadEvents(outcome, {StateChanged("a", "syncing"),
                                StateChanged("b", "idle"), ConfigSaved})
    \/ \E outcome \in Successes : ReadConnections(outcome, CoreConnections)
    \/ \E outcome \in Successes : ReadDirStatistics(outcome)
    \/ \E outcome \in Successes : ReadDeviceStatistics(outcome)
    \/ \E outcome \in Successes : ReadErrors(outcome)

SpecIds == Init /\ [][NextIds]_vars

(***************************************************************************)
(* The one-off commands: pause, resume, rescan, restart and shutdown and   *)
(* both outcomes of each, around connection attempts that succeed or lose  *)
(* their events request.                                                   *)
(***************************************************************************)
NextCommands ==
    \/ ConnectSettings
    \/ Disconnect
    \/ \E ep \in CommandEndpoints : OneOff(ep)
    \/ \E ep \in CommandEndpoints : \E outcome \in {"ok", "failed"} :
           ReadOneOff(ep, outcome)
    \/ Quiet /\ AutoReconnect
    \/ Quiet /\ \E outcome \in Successes : ReadConfig(outcome, CoreConfigs)
    \/ Quiet /\ \E outcome \in Successes : ReadStatus(outcome)
    \/ Quiet /\ \E outcome \in {"timeout", "canceled", "failed"} :
                    ReadEvents(outcome, CoreEvents)
    \/ \E outcome \in Successes : ReadConnections(outcome, CoreConnections)
    \/ \E outcome \in Successes : ReadDirStatistics(outcome)
    \/ \E outcome \in Successes : ReadDeviceStatistics(outcome)
    \/ \E outcome \in Successes : ReadErrors(outcome)

SpecCommands == Init /\ [][NextCommands]_vars

(***************************************************************************)
(* The final disconnect: connection attempts with every outcome of every   *)
(* request, ended by disconnect() as the last command.  Neither a command  *)
(* nor an expiry of the auto-reconnect timer follows the disconnect; the   *)
(* responses to the requests issued before it do.                          *)
(***************************************************************************)
NextDisconnect ==
    \/ commands < MaxCommands - 1 /\ Connect
    \/ commands < MaxCommands - 1 /\ ConnectSettings
    \/ commands < MaxCommands - 1 /\ Reconnect
    \/ commands = MaxCommands - 1 /\ Disconnect
    \/ commands < MaxCommands /\ Quiet /\ AutoReconnect
    \/ Quiet /\ \E outcome \in Outcomes : ReadConfig(outcome, CoreConfigs)
    \/ Quiet /\ \E outcome \in Outcomes : ReadStatus(outcome)
    \/ Quiet /\ \E outcome \in Outcomes \cup {"timeout"} :
                    ReadEvents(outcome, CoreEvents)
    \/ \E outcome \in Successes : ReadConnections(outcome, CoreConnections)
    \/ \E outcome \in Successes : ReadDirStatistics(outcome)
    \/ \E outcome \in Successes : ReadDeviceStatistics(outcome)
    \/ \E outcome \in Successes : ReadErrors(outcome)

SpecDisconnect == Init /\ [][NextDisconnect]_vars

(***************************************************************************)
(* The failures: every outcome of every request and of every one-off       *)
(* command, with and without a reconnect interval.                         *)
(***************************************************************************)
\* A one-off command is issued on an established connection and answered
\* before anything else happens.
Answered == \A r \in BagToSet(replies) : r.ep \notin CommandEndpoints

NextFailures ==
    \/ Answered /\ Connect
    \/ Answered /\ ConnectSettings
    \/ Answered /\ Quiet /\ AutoReconnect
    \/ isConnected(St) /\ Quiet /\ \E ep \in CommandEndpoints : OneOff(ep)
    \/ \E ep \in CommandEndpoints : \E outcome \in {"ok", "failed"} :
           ReadOneOff(ep, outcome)
    \/ Answered /\ Quiet /\ \E outcome \in Outcomes : ReadConfig(outcome, CoreConfigs)
    \/ Answered /\ Quiet /\ \E outcome \in Outcomes : ReadStatus(outcome)
    \/ Answered /\ Quiet /\ \E outcome \in Outcomes \cup {"timeout"} :
                    ReadEvents(outcome, CoreEvents)
    \/ Answered /\ \E outcome \in Outcomes : ReadConnections(outcome, CoreConnections)
    \/ Answered /\ \E outcome \in Outcomes : ReadDirStatistics(outcome)
    \/ Answered /\ \E outcome \in Outcomes : ReadDeviceStatistics(outcome)
    \/ Answered /\ \E outcome \in Outcomes : ReadErrors(outcome)

SpecFailures == Init /\ [][NextFailures]_vars

(***************************************************************************)
(* The device events: every Device* event for the own device, a peer, an   *)
(* unknown device and no device, with no timestamp, an early and a late    *)
(* one, between connections responses read at different moments.           *)
(***************************************************************************)
TimedDeviceEvents ==
    {At(DeviceEvent(type, dev), time) :
        type \in DeviceEventTypes, dev \in {"d1", "d2"},
        time \in {0, 1, MaxClock}}
    \cup {DeviceEvent(type, dev) :
            type \in DeviceEventTypes, dev \in {"d9", ""}}

NextDevices ==
    \/ replies = EmptyBag /\ Connect
    \/ Tick
    \/ TimerFires("connections")
    \/ Quiet /\ ReadConfig("ok", CoreConfigs)
    \/ Quiet /\ ReadStatus("ok")
    \/ Quiet /\ \E outcome \in {"ok", "timeout"} :
                    ReadEvents(outcome, TimedDeviceEvents)
    \/ ReadConnections("ok", EntityConnections)
    \/ ReadDirStatistics("ok")
    \/ ReadDeviceStatistics("ok")
    \/ ReadErrors("ok")

SpecDevices == Init /\ [][NextDevices]_vars

(***************************************************************************)
(* The items: ItemFinished events with and without an error, for updated   *)
(* and deleted items of two known folders and an unknown one at different  *)
(* times, and DownloadProgress events over several payloads.               *)
(***************************************************************************)
ItemEvents ==
    {At(ItemFinished(folder, error, item, action), time) :
        folder \in {"a", "b", "z"}, error \in {"", "e1"},
        item \in {"f1", "f2"}, action \in {"update", "delete"},
        time \in 1..MaxClock}
    \cup {Event("FolderErrors", "a", "", <<"e2">>, 0)}
    \cup {DownloadProgress(progress) :
            progress \in {<<>>,
                          <<[dir |-> "a", items |-> <<<<1, 2>>, <<1, 2>>>>]>>,
                          <<[dir |-> "a", items |-> <<<<3, 2>>>>]>>,
                          <<[dir |-> "b", items |-> <<<<0, 0>>>>],
                            [dir |-> "z", items |-> <<<<2, 2>>>>]>>}}

NextItems ==
    \/ replies = EmptyBag /\ Connect
    \/ Quiet /\ ReadConfig("ok", {ConfigB})
    \/ Quiet /\ ReadStatus("ok")
    \/ Quiet /\ \E outcome \in {"ok", "timeout"} : ReadEvents(outcome, ItemEvents)
    \/ ReadConnections("ok", CoreConnections)
    \/ ReadDirStatistics("ok")
    \/ ReadDeviceStatistics("ok")
    \/ ReadErrors("ok")

SpecItems == Init /\ [][NextItems]_vars

(***************************************************************************)
(* The folder errors: FolderErrors events with new, repeated and known     *)
(* errors for a folder whose status other events change.  SyncthingDir,    *)
(* which keeps the shadow list of previous errors, is not part of the      *)
(* sources at hand: SnapshotErrors stands for its moving the errors of a   *)
(* directory to the previous errors, at any time.                          *)
(***************************************************************************)
SnapshotErrors ==
    \E row \in DOMAIN dirs :
        /\ dirs[row].errors # <<>>
        /\ Apply([St EXCEPT !.dirs[row].previousErrors = dirs[row].errors,
                            !.dirs[row].errors = <<>>,
                            !.out = <<>>])

ErrorEvents ==
    {Event("FolderErrors", folder, "", errs, 0) :
        folder \in {"a", "b", "z"},
        errs \in {<<>>, <<"e1">>, <<"e2">>, <<"e1", "e2">>, <<"e2", "e2">>}}
    \cup {StateChanged("a", "idle")}

NextErrors ==
    \/ replies = EmptyBag /\ Connect
    \/ Quiet /\ ReadConfig("ok", {ConfigA, ConfigB})
    \/ Quiet /\ ReadStatus("ok")
    \/ Quiet /\ \E outcome \in {"ok", "timeout"} : ReadEvents(outcome, ErrorEvents)
    \/ ReadConnections("ok", CoreConnections)
    \/ ReadDirStatistics("ok")
    \/ ReadDeviceStatistics("ok")
    \/ ReadErrors("ok")
    \/ Quiet /\ SnapshotErrors

SpecErrors == Init /\ [][NextErrors]_vars

(***************************************************************************)
(* The traffic: connections responses with different totals, read at       *)
(* different times.  TenSeconds lets ten seconds pass at once, so that the *)
(* samples are up to twelve seconds apart.                                 *)
(***************************************************************************)
TenSeconds == now <= MaxClock /\ Apply([St EXCEPT !.now = @ + 10])

TrafficPayloads ==
    {[PeerPaused EXCEPT !.inBytesTotal = incoming, !.outBytesTotal = outgoing] :
        incoming \in {1000, 2000}, outgoing \in {0, 1000}}

NextTraffic ==
    \/ replies = EmptyBag /\ Connect
    \/ Tick
    \/ TenSeconds
    \/ TimerFires("connections")
    \/ Quiet /\ ReadConfig("ok", CoreConfigs)
    \/ Quiet /\ ReadStatus("ok")
    \/ Quiet /\ ReadEvents("timeout", CoreEvents)
    \/ ReadConnections("ok", TrafficPayloads)
    \/ ReadDirStatistics("ok")
    \/ ReadDeviceStatistics("ok")
    \/ ReadErrors("ok")

SpecTraffic == Init /\ [][NextTraffic]_vars

(***************************************************************************)
(* The reconnects: reconnect() with sufficient and insufficient settings   *)
(* and every outcome of the requests of the new attempt.  Every request in *)
(* flight completes and an active auto-reconnect timer expires; the user   *)
(* need not do anything.                                                   *)
(***************************************************************************)
Completion ==
    \/ Quiet /\ \E outcome \in Outcomes : ReadConfig(outcome, CoreConfigs)
    \/ Quiet /\ \E outcome \in Outcomes : ReadStatus(outcome)
    \/ Quiet /\ \E outcome \in Outcomes \cup {"timeout"} :
                    ReadEvents(outcome, CoreEvents)
    \/ \E outcome \in Successes : ReadConnections(outcome, CoreConnections)
    \/ \E outcome \in Successes : ReadDirStatistics(outcome)
    \/ \E outcome \in Successes : ReadDeviceStatistics(outcome)
    \/ \E outcome \in Successes : ReadErrors(outcome)

NextReconnect ==
    \/ Reconnect
    \/ ReconnectSettings
    \/ Quiet /\ AutoReconnect
    \/ Completion

\* Requests are not in flight for ever without one of them completing, and
\* the timer is not active for ever without expiring.
SpecReconnect ==
    /\ Init /\ [][NextReconnect]_vars
    /\ []<>(replies = EmptyBag) \/ []<><<Completion>>_vars
    /\ WF_vars(AutoReconnect)

(***************************************************************************)
(* The last files: directory statistics responses that list one folder or  *)
(* both, with and without a last file and with times that do and do not    *)
(* parse, ItemFinished events of different times, and a reconnect.         *)
(***************************************************************************)
FileStatistics(filename, at) ==
    [lastScan |-> 1, lastFile |-> TRUE, filename |-> filename,
     deleted |-> FALSE, at |-> at]
DirStatistics ==
    {"a" :> FileStatistics("f1", at) : at \in 0..MaxClock}
    \cup {("a" :> FileStatistics("f1", 1)) @@ ("b" :> FileStatistics("f2", at)) :
            at \in {2, MaxClock}}
    \cup {"b" :> FileStatistics("", 2),
          "a" :> [FileStatistics("", 0) EXCEPT !.lastFile = FALSE],
          "z" :> FileStatistics("f9", MaxClock)}
FileEvents ==
    {At(ItemFinished(folder, "", "f3", "update"), time) :
        folder \in {"a", "b"}, time \in 0..MaxClock}

NextFiles ==
    \/ replies = EmptyBag /\ Connect
    \/ Quiet /\ isConnected(St) /\ Reconnect
    \/ Quiet /\ ReadConfig("ok", {ConfigB})
    \/ Quiet /\ ReadStatus("ok")
    \/ Quiet /\ \E outcome \in {"ok", "timeout", "canceled"} :
                    ReadEvents(outcome, FileEvents)
    \/ \E outcome \in Successes : ReadConnections(outcome, CoreConnections)
    \/ \E outcome \in Successes : ReadDirStatisticsOf(outcome, DirStatistics)
    \/ \E outcome \in Successes : ReadDeviceStatistics(outcome)
    \/ \E outcome \in Successes : ReadErrors(outcome)

SpecFiles == Init /\ [][NextFiles]_vars

(***************************************************************************)
(* After the disconnect: as the final disconnect, but the auto-reconnect   *)
(* timer may expire after disconnect() as well as before it.               *)
(***************************************************************************)
NextStop ==
    \/ commands < MaxCommands - 1 /\ Connect
    \/ commands < MaxCommands - 1 /\ ConnectSettings
    \/ commands < MaxCommands - 1 /\ Reconnect
    \/ commands = MaxCommands - 1 /\ Disconnect
    \/ Quiet /\ AutoReconnect
    \/ Quiet /\ \E outcome \in Outcomes : ReadConfig(outcome, CoreConfigs)
    \/ Quiet /\ \E outcome \in Outcomes : ReadStatus(outcome)
    \/ Quiet /\ \E outcome \in Outcomes \cup {"timeout"} :
                    ReadEvents(outcome, CoreEvents)
    \/ \E outcome \in Successes : ReadConnections(outcome, CoreConnections)
    \/ \E outcome \in Successes : ReadDirStatistics(outcome)
    \/ \E outcome \in Successes : ReadDeviceStatistics(outcome)
    \/ \E outcome \in Successes : ReadErrors(outcome)

SpecStop == Init /\ [][NextStop]_vars

(***************************************************************************)
(* The polling of one connection: the attempt, every outcome of the        *)
(* connections request and the polling timers, without any command after   *)
(* connect().  Requests are not in flight for ever without one of them     *)
(* completing, and a polling timer does not stay pending for ever.         *)
(***************************************************************************)
NextPolling ==
    \/ replies = EmptyBag /\ commands = 0 /\ Connect
    \/ Completion
    \/ \E outcome \in {"parse", "failed"} : ReadConnections(outcome, CoreConnections)
    \/ \E ep \in TimerEndpoints : TimerFires(ep)

SpecPolling ==
    /\ Init /\ [][NextPolling]_vars
    /\ []<>(replies = EmptyBag) \/ []<><<Completion>>_vars
    /\ \A ep \in TimerEndpoints : WF_vars(TimerFires(ep))

(***************************************************************************)
(* The daemon's errors over repeated polls and successive connections.     *)
(* The clock advances only while there is no connection (status            *)
(* Disconnected, nothing in flight), so that during a connection `now` is  *)
(* the time of its first errors completion.  A listed error carries its    *)
(* own message, so that a notification names its error.                    *)
(***************************************************************************)
ErrorLists ==
    {<<>>}
    \cup {<<[when |-> w, message |-> "m1"]>> : w \in 0..MaxClock + 1}
    \cup {<<[when |-> w1, message |-> "m1"], [when |-> w2, message |-> "m2"]>> :
            w1, w2 \in 1..MaxClock + 1}

NextNotifications ==
    \/ replies = EmptyBag /\ Connect
    \/ Quiet /\ isConnected(St) /\ Reconnect
    \/ Quiet /\ ReadConfig("ok", CoreConfigs)
    \/ Quiet /\ ReadStatus("ok")
    \/ Quiet /\ \E outcome \in {"ok", "timeout", "failed", "canceled"} :
                    ReadEvents(outcome, {StateChanged("a", "idle")})
    \/ \E outcome \in Successes : ReadConnections(outcome, CoreConnections)
    \/ \E outcome \in Successes : ReadDirStatistics(outcome)
    \/ \E outcome \in Successes : ReadDeviceStatistics(outcome)
    \/ \E outcome \in Outcomes : ReadErrorsOf(outcome, ErrorLists)
    \/ TimerFires("errors")
    \/ status = "Disconnected" /\ replies = EmptyBag /\ Tick

SpecNotifications == Init /\ [][NextNotifications]_vars

(***************************************************************************)
(* Properties.  A step of a handler is recognised by the handler's action; *)
(* out' is what that step emitted and requested.                           *)
(***************************************************************************)
Count(o, entry) == Cardinality({i \in DOMAIN o : o[i] = entry})
NoError(o) == \A i \in DOMAIN o : o[i][1] # "error"
Connected == {"Idle", "Scanning", "Synchronizing", "Paused"}
PollRequests == {"connections", "dirStats", "devStats", "errors", "events"}

\* The precedence rule of the aggregate status over the entities.
Precedence(ds, vs) ==
    IF \E i \in DOMAIN ds : ds[i].status = "Synchronizing" THEN "Synchronizing"
    ELSE IF \E i \in DOMAIN ds : ds[i].status = "Scanning" THEN "Scanning"
    ELSE IF \E i \in DOMAIN vs : vs[i].paused THEN "Paused"
    ELSE "Idle"

\* C1: in every reachable state whose overall status is neither
\* Disconnected, Reconnecting nor BeingDestroyed, the overall status equals
\* the precedence function of the current directory statuses and device
\* paused flags.  (Violated: a connections response that sets a paused flag
\* leaves the status as it was.)
C1_StatusNeverStale == status \in Connected => status = Precedence(dirs, devs)

\* C2: every recomputation of the aggregate status with a target other than
\* Disconnected/Reconnecting (the one that ends the handling of an events
\* response or timeout, and the one of a notification while connected)
\* yields Synchronizing iff a directory is Synchronizing, Scanning iff none
\* is Synchronizing and one is Scanning, Paused iff none is Scanning or
\* Synchronizing and a device is paused, and Idle otherwise.
C2_Recomputed ==
    LET synchronizing == \E i \in DOMAIN dirs' : dirs'[i].status = "Synchronizing"
        scanning == \E i \in DOMAIN dirs' : dirs'[i].status = "Scanning"
        paused == \E i \in DOMAIN devs' : devs'[i].paused
    IN  /\ status' = "Synchronizing" <=> synchronizing
        /\ status' = "Scanning" <=> ~synchronizing /\ scanning
        /\ status' = "Paused" <=> ~synchronizing /\ ~scanning /\ paused
        /\ status' = "Idle" <=> ~synchronizing /\ ~scanning /\ ~paused
C2_AggregateStatus ==
    [][(\/ keepPolling /\ \E outcome \in {"ok", "timeout"} :
                              ReadEvents(outcome, EntityEvents)
        \/ status \in Connected /\ ReadErrors("ok"))
       => C2_Recomputed]_vars
\* A recomputation has found a synchronizing and a scanning directory and a
\* paused device.
C2_Witness ==
    /\ status = "Synchronizing"
    /\ \E i \in DOMAIN dirs : dirs[i].status = "Scanning"
    /\ \E i \in DOMAIN devs : devs[i].paused

\* C3: while the connection is established the stored last-seen event id
\* is the id of the last event of the batch just processed, and no other
\* completion (config, status, poller) and no command that keeps the
\* connection established decreases it.  (Violated: a late status response
\* starts the polling again and resets the id to zero.)
C3_LastEventIdKept ==
    [][/\ \A r \in BagToSet(replies) : \A batch \in Batches(CoreEvents, r.since) :
            /\ CanFinish(r, "events", "ok")
            /\ Do(readEvents(Finished(r, "ok"), "ok", batch))
            => lastEventId' = batch[Len(batch)].id
       /\ /\ status \in Connected
          /\ status' \in Connected
          /\ ~ \E outcome \in Outcomes \cup {"timeout"} :
                   ReadEvents(outcome, CoreEvents)
          => lastEventId' >= lastEventId]_vars

\* C4: a successful configuration fetch keeps, for every listed directory
\* and device whose id the collection already holds, the status, the error
\* list and the counters (the paused flag of a device), and yields a fresh
\* record for an id the collection does not hold.  (Violated: the status of
\* every listed device that is not the own device is reset to Unknown.)
C4_DirReconciled(new) ==
    LET row == findInfo(dirs, new.id)
    IN  IF row # 0
        THEN /\ new.status = dirs[row].status
             /\ new.errors = dirs[row].errors
             /\ new.globalFiles = dirs[row].globalFiles
        ELSE /\ new.status = "Unknown"
             /\ new.errors = <<>>
             /\ new.globalFiles = 0
C4_DevReconciled(new) ==
    LET row == findInfo(devs, new.id)
    IN  IF row # 0
        THEN new.status = devs[row].status /\ new.paused = devs[row].paused
        ELSE new.status \in {"Unknown", "OwnDevice"} /\ ~new.paused
C4_ReconcileKeepsState ==
    [][ReadConfig("ok", EntityConfigs)
       => /\ \A i \in DOMAIN dirs' : C4_DirReconciled(dirs'[i])
          /\ \A i \in DOMAIN devs' : C4_DevReconciled(devs'[i])]_vars

\* C5: a device whose status is OwnDevice keeps that status across every
\* event of an events response and across every connections response,
\* whatever they say about that device.
C5_OwnDeviceKept ==
    [][(\/ \E outcome \in {"ok", "timeout"} : ReadEvents(outcome, EntityEvents)
        \/ ReadConnections("ok", EntityConnections))
       => \A i \in DOMAIN devs :
              devs[i].status = "OwnDevice"
              => /\ i \in DOMAIN devs'
                 /\ devs'[i].id = devs[i].id
                 /\ devs'[i].status = "OwnDevice"]_vars
\* An event or a connections response about the own device was applied: the
\* own device is paused.
C5_Witness == \E i \in DOMAIN devs : devs[i].status = "OwnDevice" /\ devs[i].paused

\* A canceled completion of one request, by endpoint.
CanceledCompletion(ep) ==
    CASE ep = "config" -> ReadConfig("canceled", CoreConfigs)
      [] ep = "status" -> ReadStatus("canceled")
      [] ep = "connections" -> ReadConnections("canceled", CoreConnections)
      [] ep = "dirStats" -> ReadDirStatistics("canceled")
      [] ep = "devStats" -> ReadDeviceStatistics("canceled")
      [] ep = "errors" -> ReadErrors("canceled")
      [] ep = "events" -> ReadEvents("canceled", CoreEvents)
C6_NoErrorNoFlagChange ==
    /\ NoError(out')
    /\ hasConfig' = hasConfig
    /\ hasStatus' = hasStatus

\* C6 as stated: a canceled completion of any of the seven requests never
\* emits an error and never changes the has-config / has-status flags.
\* (Violated: the canceled events completion of a pending reconnect
\* restarts the connection.)
C6_CanceledIsSilent ==
    [][(\E ep \in Endpoints : CanceledCompletion(ep))
       => C6_NoErrorNoFlagChange]_vars

\* C6, amended: a canceled completion of any of the seven requests, other
\* than the one of the events request while the reconnecting flag is set,
\* emits no error and leaves the has-config / has-status flags as they are;
\* disconnect() emits no error and leaves has-config false.
C6_CanceledIsSilentUnlessRestart ==
    [][/\ (\/ \E ep \in Endpoints \ {"events"} : CanceledCompletion(ep)
           \/ ~reconnecting /\ CanceledCompletion("events"))
          => C6_NoErrorNoFlagChange
       /\ Disconnect => NoError(out') /\ ~hasConfig']_vars
\* disconnect() came while the config request of connect() was in flight,
\* and the request has completed as canceled.
C6_Witness ==
    /\ commands = 2
    /\ failures = 0
    /\ keepPolling
    /\ status = "Disconnected"
    /\ dirs = <<>>
    /\ ~hasConfig
    /\ out = <<>>
    /\ \A r \in BagToSet(replies) : r.ep # "config"

C8_PollingStartedOnce ==
    [][(ReadConfig("ok", CoreConfigs) \/ ReadStatus("ok"))
       => /\ (/\ status \notin Connected
              /\ ~(hasConfig /\ hasStatus)
              /\ hasConfig' /\ hasStatus' /\ keepPolling')
             => \A ep \in PollRequests : Count(out', <<"request", ep>>) = 1
          /\ (hasConfig /\ hasStatus)
             => \A ep \in PollRequests : Count(out', <<"request", ep>>) = 0]_vars

\* C9: disconnect() aborts every request in flight, the two statistics
\* requests included, and clears the reconnecting and keep-polling flags.
\* (Violated: keep-polling stays set and the statistics requests are not
\* aborted, so the pollers go on.)
C9_DisconnectStopsPolling ==
    [][Disconnect
       => /\ \A r \in BagToSet(replies') : r.aborted
          /\ ~reconnecting'
          /\ ~keepPolling']_vars

\* What a restart emits and requests, given the status before it and
\* whether requests follow.
RestartOut(before, requests) ==
    <<<<"newConfig", "empty">>>>
    \o (IF before # "Reconnecting"
        THEN <<<<"statusChanged", "Reconnecting">>>> ELSE <<>>)
    \o (IF requests THEN <<<<"request", "config">>, <<"request", "status">>>>
        ELSE <<<<"error", "OverallConnection">>>>)
\* The state a restart leaves.
Restarted ==
    /\ status' = "Reconnecting"
    /\ dirs' = <<>> /\ devs' = <<>>
    /\ lastEventId' = 0 /\ myId' = "" /\ configDir' = ""
    /\ totalIncomingTraffic' = 0
    /\ ~hasConfig' /\ ~hasStatus'
    /\ ~reconnecting'
\* A step that restarts the connection: reconnect() while not connected, or
\* the canceled completion of the events request while reconnecting is set.
RestartStep ==
    \/ status \notin Connected /\ (Reconnect \/ ReconnectSettings)
    \/ reconnecting /\ ReadEvents("canceled", CoreEvents)

C11_DestroyedIsTerminal ==
    [][status = "BeingDestroyed"
       => /\ status' = "BeingDestroyed"
          /\ \A i \in DOMAIN out' : out'[i][1] # "statusChanged"]_vars
\* The object was destroyed while it was polling, and the events request
\* the destructor aborted has completed.
C11_Witness ==
    /\ status = "BeingDestroyed"
    /\ commands = 2
    /\ failures = 0
    /\ myId # "" /\ dirs # <<>>
    /\ \A r \in BagToSet(replies) : r.ep # "events"

\* C12: a step gives the just-completed set new contents other than none
\* only when it takes the aggregate status from Synchronizing to Idle or
\* Scanning, and then every member is a directory of the collection that a
\* recomputation of that Synchronizing period found synchronizing; a step
\* to Paused, Disconnected or Reconnecting puts no directory into the set.
C12_EntersCompleted ==
    /\ status = "Synchronizing"
    /\ status' \in {"Idle", "Scanning"}
    /\ \A p \in completedDirs' : p \in DOMAIN dirs' /\ p \in syncedDirs
C12_CompletedAfterSynchronizing ==
    [][/\ (completedDirs' # completedDirs /\ completedDirs' # {})
          => C12_EntersCompleted
       /\ (status' # status /\ status' \in {"Paused", "Disconnected", "Reconnecting"})
          => completedDirs' \subseteq completedDirs]_vars

\* An expiry of the auto-reconnect timer does what connect() does.
C13_InvokesConnect ==
    LET s == connect(St)
    IN  /\ out' = s.out
        /\ replies' = s.replies
        /\ keepPolling' = s.keepPolling
        /\ hasConfig' = s.hasConfig /\ hasStatus' = s.hasStatus
        /\ reconnecting' = s.reconnecting
        /\ timerActive' = s.timerActive
        /\ status' = status

C14_FailureDisconnects ==
    [][(\E outcome \in {"parse", "failed"} :
            \/ ReadConfig(outcome, CoreConfigs)
            \/ ReadStatus(outcome)
            \/ ReadEvents(outcome, CoreEvents))
       => /\ ~NoError(out')
          /\ status' = "Disconnected"
          /\ autoReconnectInterval # 0 => timerActive']_vars

\* What the handling of an events response or timeout ends with while
\* keep-polling is set: no error, one new events request, issued after
\* everything the events of the batch emitted and requested, that carries
\* the last-seen event id, and then the recomputed connected status.
C15_Repolled ==
    /\ NoError(out')
    /\ Count(out', <<"request", "events">>) = 1
    /\ \A i \in DOMAIN out' :
           out'[i] = <<"request", "events">>
           => \A j \in DOMAIN out' : j > i => out'[j][1] = "statusChanged"
    /\ \E r \in BagToSet(replies') :
           r.ep = "events" /\ r.cur /\ ~r.aborted /\ r.since = lastEventId'
    /\ status' = Precedence(dirs', devs')

\* C15: a timeout of the events request is no error and polls again; a
\* successful batch is applied as a whole (the last-seen id is the id of
\* its last event) before the next events request is issued; while
\* keep-polling is set each successful or timed-out completion issues
\* exactly one events request with since = the last-seen event id, and the
\* status is then recomputed as a connected status.
C15_EventLoop ==
    [][/\ (keepPolling /\ ReadEventBatch("timeout"))
          => C15_Repolled /\ lastEventId' = lastEventId
       /\ \A r \in BagToSet(replies) :
              \A batch \in LongBatches(BatchEvents, r.since) :
                  (/\ keepPolling
                   /\ CanFinish(r, "events", "ok")
                   /\ Do(readEvents(Finished(r, "ok"), "ok", batch)))
                  => C15_Repolled /\ lastEventId' = batch[Len(batch)].id]_vars
\* A batch of two events, the second of them ConfigSaved, was applied and
\* the events request that followed carries the id of the second.
C15_Witness ==
    /\ lastEventId = 2
    /\ out = <<<<"request", "config">>, <<"request", "events">>,
               <<"statusChanged", "Synchronizing">>>>
    /\ \E r \in BagToSet(replies) : r.ep = "events" /\ r.cur /\ r.since = 2

\* The step has changed the URL, the API key, the credentials or the
\* expected SSL errors of the connection.
C16_Changed ==
    \/ syncthingUrl' # syncthingUrl
    \/ apiKey' # apiKey
    \/ user' # user \/ password' # password
    \/ expectedSslErrors' # expectedSslErrors
\* The step has not reconnected.
C16_NotReconnected ==
    /\ replies' = replies
    /\ reconnecting' = reconnecting
    /\ status' = status
    /\ Count(out', <<"newConfig", "empty">>) = 0
    /\ \A ep \in Endpoints : Count(out', <<"request", ep>>) = 0

Distinct(list) == \A i, j \in DOMAIN list : list[i].id = list[j].id => i = j
C17_IdsDistinct == Distinct(dirs) /\ Distinct(devs)

(***************************************************************************)
(* C18: every completion of a one-off command (pause, resume, rescan,      *)
(* restart, shutdown) produces exactly one outcome: the matching           *)
(* acknowledgement on success, one error of category SpecificRequest on    *)
(* failure; it changes neither the overall status, the readiness flags,    *)
(* the entity collections nor the reconnect timer.                         *)
(***************************************************************************)
Acknowledgement(ep) ==
    CASE ep = "pause" -> "pauseTriggered"
      [] ep = "resume" -> "resumeTriggered"
      [] ep = "rescan" -> "rescanTriggered"
      [] ep = "restart" -> "restartTriggered"
      [] ep = "shutdown" -> "shutdownTriggered"
C18_OneOutcome(ep, outcome) ==
    \E r \in BagToSet(replies) :
        /\ r.ep = ep
        /\ replies' = replies (-) SetToBag({r})
        /\ out' = IF outcome = "ok" THEN << <<Acknowledgement(ep), r.arg>> >>
                  ELSE << <<"error", "SpecificRequest">> >>
C18_OneOffCompletion ==
    [][\A ep \in CommandEndpoints : \A outcome \in {"ok", "failed"} :
          ReadOneOff(ep, outcome)
          => /\ C18_OneOutcome(ep, outcome)
             /\ UNCHANGED <<status, hasConfig, hasStatus, keepPolling,
                            reconnecting, dirs, devs, syncedDirs,
                            completedDirs, timerActive, autoReconnectTries,
                            timers>>]_vars
\* A resume command was acknowledged on an established connection whose
\* reconnect timer can be started.
C18_Witness ==
    /\ out = << <<"resumeTriggered", "d2">> >>
    /\ isConnected(St)
    /\ autoReconnectInterval # 0
    /\ devs # <<>>

(***************************************************************************)
(* C19: within a connection attempt no connections, statistics, errors or  *)
(* events request is issued before the config response and the status      *)
(* response of that attempt have succeeded: a handler that issues one      *)
(* leaves both readiness flags and the keep-polling flag set.              *)
(***************************************************************************)
C19_PollRequested(o) == \E ep \in PollRequests : Count(o, <<"request", ep>>) > 0
C19_PollingAfterReady ==
    [][C19_PollRequested(out') => hasConfig' /\ hasStatus' /\ keepPolling']_vars

(***************************************************************************)
(* C20: a canceled completion of the events request while the reconnecting *)
(* flag is not set leaves the status Disconnected, and after disconnect()  *)
(* a status that is Disconnected stays Disconnected until the next         *)
(* connect()/reconnect() or expiry of the auto-reconnect timer: no late    *)
(* completion of an earlier request makes it a connected status again.     *)
(* In SpecDisconnect disconnect() is the command that makes commands equal *)
(* to MaxCommands, and nothing is invoked after it.                        *)
(***************************************************************************)
C20_AfterDisconnect == commands = MaxCommands
C20_CleanDisconnect ==
    [][/\ (ReadEvents("canceled", CoreEvents) /\ ~reconnecting)
          => status' = "Disconnected"
       /\ (C20_AfterDisconnect /\ status = "Disconnected")
          => status' = "Disconnected"]_vars

(***************************************************************************)
(* C21: the auto-reconnect timer is started only by the handler of a       *)
(* failed (transport or parse) config, status or events response, which    *)
(* emits the error, and only if the configured interval is not zero; a     *)
(* failure of a connections, statistics or errors poll or of a one-off     *)
(* command never starts it.                                                *)
(***************************************************************************)
C21_ConnectionFailure ==
    \E outcome \in {"parse", "failed"} :
        \/ ReadConfig(outcome, CoreConfigs)
        \/ ReadStatus(outcome)
        \/ ReadEvents(outcome, CoreEvents)
C21_OtherFailure ==
    \/ \E outcome \in {"parse", "failed"} :
           \/ ReadConnections(outcome, CoreConnections)
           \/ ReadDirStatistics(outcome)
           \/ ReadDeviceStatistics(outcome)
           \/ ReadErrors(outcome)
    \/ \E ep \in CommandEndpoints : ReadOneOff(ep, "failed")
C21_TimerArmedByFailure ==
    [][/\ (~timerActive /\ timerActive')
          => /\ C21_ConnectionFailure
             /\ ~NoError(out')
             /\ autoReconnectInterval # 0
       /\ C21_OtherFailure => timerActive' = timerActive]_vars
\* The timer was started by a failure of the events request.
C21_Witness ==
    /\ timerActive
    /\ out = <<<<"error", "OverallConnection">>, <<"statusChanged", "Disconnected">>>>
    /\ hasConfig /\ hasStatus

(***************************************************************************)
(* C22: a StateChanged event that names a folder id that is not empty and  *)
(* not in the collection appends a bare directory with that id and the     *)
(* event's target status and requests the config; a StateChanged event for *)
(* a known folder only sets that folder's status and requests nothing      *)
(* besides the next events.  A config response that succeeds gives every   *)
(* folder it lists the label of the payload, without any error.            *)
(***************************************************************************)
C22_StateChangedEvents == {ev \in EntityEvents : ev.type = "StateChanged"}
C22_Applied(ev) ==
    LET row == findInfo(dirs, ev.a)
    IN  IF row = 0
        THEN /\ dirs' = Append(dirs, [NewDir(ev.a) EXCEPT
                                         !.status = statusByName(ev.b)])
             /\ Count(out', <<"request", "config">>) = 1
        ELSE /\ dirs' = [dirs EXCEPT ![row].status = statusByName(ev.b)]
             /\ Count(out', <<"request", "config">>) = 0
C22_Refetched(payload) ==
    /\ NoError(out')
    /\ \A i \in DOMAIN payload.folders :
           \E j \in DOMAIN dirs' :
               /\ dirs'[j].id = payload.folders[i].id
               /\ dirs'[j].label = payload.folders[i].label
C22_UnknownFolderHeals ==
    [][/\ \A ev \in C22_StateChangedEvents :
              ReadEvents("ok", {ev}) => C22_Applied(ev)
       /\ \A payload \in EntityConfigs :
              ReadConfig("ok", {payload}) => C22_Refetched(payload)]_vars
\* The folder c, which no config lists, was created by a StateChanged event.
C22_Witness ==
    /\ \E i \in DOMAIN dirs :
           dirs[i].id = "c" /\ dirs[i].label = "" /\ dirs[i].status = "Idle"
    /\ Count(out, <<"request", "config">>) = 1

(***************************************************************************)
(* C23: for a device in the collection that is not the own device,         *)
(* DeviceConnected makes the status Idle, DeviceDisconnected makes it      *)
(* Disconnected, DevicePaused sets the paused flag and keeps the status,   *)
(* DeviceRejected makes the status Rejected whatever it was, DeviceResumed *)
(* clears the paused flag and makes the status Disconnected and            *)
(* DeviceDiscovered makes the status Disconnected only if it was Unknown;  *)
(* any other Device* event, and any Device* event for a device id that is  *)
(* empty or not in the collection, changes no device.                      *)
(***************************************************************************)
C23_Mapped(dev, type) ==
    CASE type = "DeviceConnected" -> [dev EXCEPT !.status = "Idle"]
      [] type = "DeviceDisconnected" -> [dev EXCEPT !.status = "Disconnected"]
      [] type = "DevicePaused" -> [dev EXCEPT !.paused = TRUE]
      [] type = "DeviceRejected" -> [dev EXCEPT !.status = "Rejected"]
      [] type = "DeviceResumed" ->
            [dev EXCEPT !.paused = FALSE, !.status = "Disconnected"]
      [] type = "DeviceDiscovered" /\ dev.status = "Unknown" ->
            [dev EXCEPT !.status = "Disconnected"]
      [] OTHER -> dev
C23_DeviceEventApplied(ev) ==
    LET row == findInfo(devs, ev.a)
    IN  IF ev.a = "" \/ row = 0 THEN devs' = devs
        ELSE devs[row].status # "OwnDevice"
             => devs' = [devs EXCEPT ![row] = C23_Mapped(@, ev.type)]
C30_StaleDeviceEventIgnored ==
    [][\A ev \in TimedDeviceEvents :
          (/\ ReadEvents("ok", {ev})
           /\ ev.time # 0
           /\ lastConnectionsUpdate # 0
           /\ ev.time < lastConnectionsUpdate)
          => devs' = devs]_vars

(***************************************************************************)
(* C24: an ItemFinished event without an error for a folder in the         *)
(* collection sets the folder's last file name, time and deleted flag if   *)
(* and only if the time of the event is later than the folder's last file  *)
(* time or the folder has none; the deleted flag is true exactly when the  *)
(* action of the item is delete; the connection's most recent file is set  *)
(* only if the time of the event is later than the connection's.           *)
(***************************************************************************)
C24_ItemFinishedEvents ==
    {ev \in ItemEvents : ev.type = "ItemFinished" /\ ev.b = "" /\ ev.a # "z"}
C24_Applied(ev) ==
    LET row == findInfo(dirs, ev.a)
        dir == dirs[row]
        newer == dir.lastFileTime = 0 \/ ev.time > dir.lastFileTime
    IN  row # 0 =>
        /\ dirs'[row] = IF newer
                        THEN [dir EXCEPT !.lastFileTime = ev.time,
                                         !.lastFileName = ev.item,
                                         !.lastFileDeleted = (ev.action = "delete")]
                        ELSE dir
        /\ <<lastFileTime', lastFileName', lastFileDeleted'>> =
              IF newer /\ ev.time > lastFileTime
              THEN <<ev.time, ev.item, ev.action = "delete">>
              ELSE <<lastFileTime, lastFileName, lastFileDeleted>>
C24_LastFileFollowsNewest ==
    [][lastEventId' > lastEventId
       => \A ev \in C24_ItemFinishedEvents :
              ReadEvents("ok", {ev}) => C24_Applied(ev)]_vars

(***************************************************************************)
(* C26: after every DownloadProgress event the download percentage of each *)
(* directory is within 0..100 and is 0 when its total blocks to download   *)
(* is 0, whatever blocks downloaded and total blocks the payload gives for *)
(* the items; a directory that the payload does not list has no item in    *)
(* flight and zero aggregates.                                             *)
(***************************************************************************)
C26_DownloadProgressEvents == {ev \in ItemEvents : ev.type = "DownloadProgress"}
C26_Recomputed(ev) ==
    \A i \in DOMAIN dirs' :
        /\ dirs'[i].downloadPercentage \in 0..100
        /\ dirs'[i].blocksToBeDownloaded = 0 => dirs'[i].downloadPercentage = 0
        /\ (\A k \in DOMAIN ev.progress : ev.progress[k].dir # dirs'[i].id)
           => /\ dirs'[i].downloadingItems = <<>>
              /\ dirs'[i].blocksAlreadyDownloaded = 0
              /\ dirs'[i].blocksToBeDownloaded = 0
C26_PercentageInRange ==
    [][lastEventId' > lastEventId
       => \A ev \in C26_DownloadProgressEvents :
              ReadEvents("ok", {ev}) => C26_Recomputed(ev)]_vars

(***************************************************************************)
(* C25: a FolderErrors event for a folder in the collection appends to the *)
(* folder's errors exactly the errors of the event that the list does not  *)
(* hold yet, each once; the folder becomes OutOfSync when one is appended  *)
(* and is left alone otherwise; a notification is raised exactly for the   *)
(* appended errors that the folder's previous errors do not hold, so none  *)
(* is raised for an error the list held already.                           *)
(***************************************************************************)
C25_FolderErrorsEvents == {ev \in ErrorEvents : ev.type = "FolderErrors"}
C25_Merged(ev) ==
    LET row == findInfo(dirs, ev.a)
        dir == dirs[row]
        after == dirs'[row]
        fresh == {ev.errs[k] : k \in DOMAIN ev.errs} \
                 {dir.errors[k] : k \in DOMAIN dir.errors}
        notified == fresh \ {dir.previousErrors[k] : k \in DOMAIN dir.previousErrors}
    IN  IF row = 0 THEN dirs' = dirs /\ Count(out', <<"newNotification", "e1">>) = 0
        ELSE /\ Len(after.errors) = Len(dir.errors) + Cardinality(fresh)
             /\ SubSeq(after.errors, 1, Len(dir.errors)) = dir.errors
             /\ {after.errors[k] : k \in DOMAIN after.errors} =
                   {dir.errors[k] : k \in DOMAIN dir.errors} \cup fresh
             /\ fresh # {} => after.status = "OutOfSync"
             /\ fresh = {} => after = dir
             /\ \A e \in {"e1", "e2"} :
                    Count(out', <<"newNotification", e>>) =
                        IF e \in notified THEN 1 ELSE 0
C27_Rate(rate, current, previous) ==
    LET elapsed == now - lastConnectionsUpdate
    IN  IF lastConnectionsUpdate = 0 \/ elapsed = 0 THEN rate[1] = 0
        ELSE IF current >= previous
        THEN rate[1] * elapsed * 1000 = (current - previous) * 8 * rate[2]
        ELSE /\ rate[1] >= 0
             /\ rate[1] * elapsed * 1000 <= current * 8 * rate[2]
C27_RatesOf(payload) ==
    /\ C27_Rate(totalIncomingRate', payload.inBytesTotal, totalIncomingTraffic)
    /\ C27_Rate(totalOutgoingRate', payload.outBytesTotal, totalOutgoingTraffic)
C27_RateNeverWraps ==
    [][\A payload \in TrafficPayloads :
           ReadConnections("ok", {payload}) => C27_RatesOf(payload)]_vars

(***************************************************************************)
(* C28: while keep-polling is true, a successful response to the           *)
(* connections, the directory statistics or the device statistics request  *)
(* schedules the next request to the same endpoint: its timer is started   *)
(* or the request is sent at once.                                         *)
(***************************************************************************)
C28_Succeeded(ep) ==
    CASE ep = "connections" -> ReadConnections("ok", CoreConnections)
      [] ep = "dirStats" -> ReadDirStatistics("ok")
      [] ep = "devStats" -> ReadDeviceStatistics("ok")
C28_Rescheduled(ep) ==
    \/ ep \in TimerEndpoints /\ timers'[ep] = timers[ep] + 1
    \/ Count(out', <<"request", ep>>) > 0
C28_PollersReschedule ==
    [][\A ep \in {"connections", "dirStats", "devStats"} :
           keepPolling /\ C28_Succeeded(ep) => C28_Rescheduled(ep)]_vars

(***************************************************************************)
(* C29: whenever the own device id changes, by a status response or by a   *)
(* Starting event, the change is announced as a change of the own id, a    *)
(* change of the config directory is announced only if the config          *)
(* directory changed as well, and a device of the collection that has the  *)
(* new id becomes the OwnDevice.                                           *)
(***************************************************************************)
C29_Announced(o, name) == Cardinality({i \in DOMAIN o : o[i][1] = name})
C29_OwnIdChanged ==
    LET row == findInfo(devs', myId')
    IN  /\ Count(out', <<"myIdChanged", myId'>>) = 1
        /\ C29_Announced(out', "configDirChanged") =
              IF configDir' # configDir THEN 1 ELSE 0
        /\ row # 0 => devs'[row].status = "OwnDevice"
C29_OwnIdChangeAnnounced == [][myId' # myId => C29_OwnIdChanged]_vars

(***************************************************************************)
(* C31: connect() while the status is a connected one sends no request and *)
(* emits nothing, and leaves the status, the has-config and has-status     *)
(* flags, the keep-polling and reconnecting flags, the last event id, the  *)
(* directories, the devices and the requests in flight as they are.        *)
(***************************************************************************)
C31_ConnectWhileConnected ==
    [][isConnected(St) /\ Connect
       => /\ out' = <<>>
          /\ UNCHANGED <<status, hasConfig, hasStatus, keepPolling,
                         reconnecting, lastEventId, dirs, dirsCap, devs,
                         myId, replies, timers>>]_vars
\* A second command was invoked on the established connection, which still
\* has every request of its first attempt in flight.
C31_Witness ==
    /\ isConnected(St) /\ commands = 2 /\ out = <<>>
    /\ hasConfig /\ hasStatus /\ keepPolling /\ ~reconnecting
    /\ ~timerActive /\ autoReconnectTries = 0
    /\ \E r \in BagToSet(replies) : r.ep = "events" /\ ~r.aborted

(***************************************************************************)
(* C32: at any time at most one events request is in flight, at most one   *)
(* config request and at most one status request; a request that was       *)
(* aborted is not counted.                                                 *)
(***************************************************************************)
C32_InFlight(ep) ==
    BagCardinality([r \in {x \in BagToSet(replies) :
                              x.ep = ep /\ ~x.aborted} |-> replies[r]])
C32_OneRequestEach ==
    \A ep \in {"events", "config", "status"} : C32_InFlight(ep) <= 1

(***************************************************************************)
(* C33: in every state each pointer of the set of synchronizing            *)
(* directories and of the set of just completed directories points to an   *)
(* element of the current directory collection.                            *)
(***************************************************************************)
C33_ReferencesValid ==
    \A p \in syncedDirs \cup completedDirs : p \in DOMAIN dirs

(***************************************************************************)
(* C34: in every state at most one device of the collection has the status *)
(* OwnDevice, and a device that has it has the own device id.              *)
(***************************************************************************)
C34_OwnDevices == {i \in DOMAIN devs : devs[i].status = "OwnDevice"}
C34_OneOwnDevice ==
    /\ Cardinality(C34_OwnDevices) <= 1
    /\ \A i \in C34_OwnDevices : devs[i].id = myId

(***************************************************************************)
(* C35: whenever the status is a connected one (Idle, Scanning,            *)
(* Synchronizing or Paused) the counter of auto-reconnect attempts is 0.   *)
(***************************************************************************)
C35_NoTriesWhileConnected == isConnected(St) => autoReconnectTries = 0

(***************************************************************************)
(* C36: when every request in flight completes, a state with the status    *)
(* Reconnecting is followed by a state with a connected status or with the *)
(* status Disconnected.                                                    *)
(***************************************************************************)
C36_ReconnectingIsTransient ==
    (status = "Reconnecting") ~> (isConnected(St) \/ status = "Disconnected")

(***************************************************************************)
(* C37: in every state the time of the connection's most recent file is    *)
(* not earlier than the last file time of any directory, whatever          *)
(* directory statistics responses and ItemFinished events were read, also  *)
(* after a reconnect.                                                      *)
(***************************************************************************)
C37_MostRecentFile ==
    \A i \in DOMAIN dirs : dirs[i].lastFileTime <= lastFileTime
\* A statistics response set the last file of one folder and an ItemFinished
\* event that of the other; the connection has the later of the two.
C37_Witness ==
    /\ lastFileTime = MaxClock /\ lastFileName = "f3"
    /\ \E i, j \in DOMAIN dirs :
           /\ dirs[i].lastFileName = "f1" /\ dirs[i].lastFileTime = 1
           /\ dirs[j].lastFileName = "f3" /\ dirs[j].lastFileTime = MaxClock

(***************************************************************************)
(* C38: after disconnect() no connection attempt is started, that is, no   *)
(* step sends the config request together with the status request, also    *)
(* when the auto-reconnect timer was started by a failure before the       *)
(* disconnect.  In SpecStop disconnect() is the command that makes         *)
(* commands equal to MaxCommands, and no command follows it.               *)
(***************************************************************************)
C38_Attempt(o) ==
    Count(o, <<"request", "config">>) > 0 /\ Count(o, <<"request", "status">>) > 0
C38_NoAttemptAfterDisconnect ==
    [][commands = MaxCommands => ~C38_Attempt(out')]_vars

(***************************************************************************)
(* C39: while the connection stays established with keep-polling set, the  *)
(* connections poll goes on: again and again a connections request is in   *)
(* flight or its timer is pending, also after a connections response that  *)
(* failed or did not parse.                                                *)
(***************************************************************************)
C39_Pending ==
    \/ timers["connections"] > 0
    \/ \E r \in BagToSet(replies) : r.ep = "connections"
C39_ConnectionsPollContinues ==
    []<>(~(isConnected(St) /\ keepPolling) \/ C39_Pending)

(***************************************************************************)
(* C40: across the errors polls of one connection the last-error time      *)
(* never decreases (it is reset only where continueReconnecting() starts a *)
(* new connection), an error not later than the last-error time raises no  *)
(* notification, and an error dated before the first errors completion of  *)
(* the connection raises none.                                             *)
(***************************************************************************)
C40_LastErrorTimeGrows ==
    [][lastErrorTime' < lastErrorTime
          => lastErrorTime' = 0 /\ Count(out', <<"newConfig", "empty">>) = 1]_vars
C40_Raised(o, e) == Count(o, <<"newNotification", e.message>>)
C40_ErrorsInFlight == \E r \in BagToSet(replies) : r.ep = "errors"
C40_NotLaterRaisesNone ==
    [][C40_ErrorsInFlight
          => \A errors \in ErrorLists :
                 ReadErrorsOf("ok", {errors})
                     => \A i \in DOMAIN errors :
                            /\ C40_Raised(out', errors[i]) <= 1
                            /\ errors[i].when <= lastErrorTime
                                   => C40_Raised(out', errors[i]) = 0]_vars
\* C40, last part: during a connection an error dated before the
\* connection's first errors completion raises no notification.
C40_EarlierRaisesNone ==
    [][C40_ErrorsInFlight /\ status # "Disconnected"
          => \A errors \in ErrorLists :
                 ReadErrorsOf("ok", {errors})
                     => \A i \in DOMAIN errors :
                            errors[i].when < now
                                => C40_Raised(out', errors[i]) = 0]_vars

====
